---- MODULE Spec2Model ----
(***************************************************************************)
(* A model of pdfpdf's in-memory document (src/src/lib.rs): the object     *)
(* list and its id allocator, the page buffer and the page flush, the font *)
(* list, and the serialisation done by write_to: object bodies, page tree, *)
(* catalog, cross-reference table, trailer and startxref.                  *)
(*                                                                         *)
(* Byte vectors (Vec<u8>) are modelled as strings, one character per byte: *)
(* Len is the byte length, \o is extend, SubSeq is a slice.                *)
(***************************************************************************)
EXTENDS Integers, Sequences, FiniteSets, TLC

VARIABLES
    buffer,              \* Pdf.buffer: the output bytes
    page_buffer,         \* Pdf.page_buffer: the content stream of the pending page
    objects,             \* Pdf.objects: Vec<PdfObject>
    width,               \* Pdf.width
    height,              \* Pdf.height
    fonts,               \* Pdf.fonts
    font_size,           \* Pdf.font_size
    current_font_index,  \* Pdf.current_font_index (0-based, as in the code)
    compression,         \* Pdf.compression
    startxref,           \* the local startxref of the last write_to (None before)
    panicked,            \* TRUE once an unwrap()/index panicked
    op,                  \* history: the last operation and its arguments
    n_add_page,          \* history: number of add_page calls so far
    n_draw,              \* history: number of drawing calls so far
    n_write,             \* history: number of write_to calls so far
    stray,               \* history: a drawing call appended before the first add_page
    started,             \* history: <<w, h>> given to the add_page that began the pending page
    flushed,             \* history: per end_page call, in order, the `started` of that page
    xref_at,             \* history: Len(buffer) when the last write_to appended "xref\n"
    n_ops,               \* history: number of operations called so far
    flush_log,           \* history: per end_page call, in order, what it found (FlushEntry)
    appended_from        \* history: Len(page_buffer) when the last operation was called

vars == <<buffer, page_buffer, objects, width, height, fonts, font_size,
          current_font_index, compression, startxref, panicked, op,
          n_add_page, n_draw, n_write, stray, started, flushed, xref_at, n_ops,
          flush_log, appended_from>>

\* ---------------------------------------------------------------- bounds
MaxAddPage == 2
MaxDraw == 2
MaxWrite == 2
MaxOps == 4

\* The inputs the operations are called with.
PageDims == {<<180, 240>>, <<400, 300>>}
FontNames == {"Helvetica", "TimesRoman"}
FontSizes == {9}
Levels == {"Best", "Off"}
\* draw_dots inputs <<xs, ys>>: no point, and two points from arrays of different length
DotsInputs == {<< <<>>, <<>> >>, << <<3, 1>>, <<5, 5, 7>> >>}

\* ---------------------------------------------------------------- values
None == <<>>
Some(v) == <<v>>
Unwrap(o) == o[1]

\* format!("{}", n) of an unsigned integer, and of an f64 holding an integer
\* value (Display prints 400.0 as "400").
FmtInt(n) == ToString(n)

RECURSIVE ZeroPad(_, _)
ZeroPad(s, w) == IF Len(s) >= w THEN s ELSE ZeroPad("0" \o s, w)

\* format!("{:010}", n)
Fmt010(n) == ZeroPad(FmtInt(n), 10)

\* Vec::pop: drops the last byte (no effect on an empty vector)
Pop(b) == IF Len(b) = 0 THEN b ELSE SubSeq(b, 1, Len(b) - 1)

\* the bytes of b from 0-based position p, n of them
Slice(b, p, n) == SubSeq(b, p + 1, p + n)

\* n copies of s
RECURSIVE Repeat(_, _)
Repeat(s, n) ==
    IF n <= 0 THEN ""
    ELSE IF n = 1 THEN s
    ELSE LET half == Repeat(s, n \div 2)
         IN  half \o half \o (IF n % 2 = 1 THEN s ELSE "")

\* "%PDF-1.7\n%" followed by the four high-bit marker bytes B5 ED AE FB
\* (written "~" here: a TLA+ string has no such characters) and "\n".
Header == "%PDF-1.7\n%" \o "~~~~" \o "\n"

PdfObject(contents, id, is_page, is_xobject) ==
    [contents |-> contents, id |-> id, is_page |-> is_page,
     is_xobject |-> is_xobject, offset |-> None]

MaxOf(S) == CHOOSE m \in S : \A x \in S : x <= m
Min(a, b) == IF a < b THEN a ELSE b

\* ---------------------------------------------------------------- add_object
\* self.objects.iter().map(|o| o.id).max().unwrap_or(3) + 1
NewIdSkipping(objs) == Len(objs) + 2

NewId(objs) ==
    (IF objs = <<>> THEN 3 ELSE MaxOf({objs[i].id : i \in 1..Len(objs)})) + 1

AddObject(objs, data, is_page, is_xobject) ==
    Append(objs, PdfObject(data, NewId(objs), is_page, is_xobject))

\* ---------------------------------------------------------------- util.rs
\* An f64 is modelled by its shortest decimal form: sign, integer part and
\* the digits after the point (no trailing zero; "" for an integer value).
F64(neg, ip, fd) == [kind |-> "f64", neg |-> neg, ip |-> ip, fd |-> fd]
Str(s) == [kind |-> "str", s |-> s]
OfInt(i) == IF i < 0 THEN F64(TRUE, 0 - i, "") ELSE F64(FALSE, i, "")

IsZero(v) == v.ip = 0 /\ v.fd = ""
IsOne(v) == v.ip = 1 /\ v.fd = ""

\* 1e-5 < v (v >= 0): some nonzero digit before the point or among the first
\* five after it, and not 0.00001 itself.  v < 1e16 holds of every modelled value.
RECURSIVE AllZero(_)
AllZero(s) == s = "" \/ (SubSeq(s, 1, 1) = "0" /\ AllZero(SubSeq(s, 2, Len(s))))
InRyuRange(v) ==
    \/ v.ip > 0
    \/ ~AllZero(SubSeq(v.fd, 1, Min(5, Len(v.fd)))) /\ v.fd # "00001"

\* ryu::Buffer::format in that range: decimal notation, always with a point
RyuDigits(v) == FmtInt(v.ip) \o "." \o (IF v.fd = "" THEN "0" ELSE v.fd)

\* format!("{}", v) of a non-negative f64
Display(v) == FmtInt(v.ip) \o (IF v.fd = "" THEN "" ELSE "." \o v.fd)

\* digits.iter().position(|b| *b == b'.'): 0-based, Len when absent
RECURSIVE DotIndex(_, _)
DotIndex(digits, i) ==
    IF i >= Len(digits) \/ SubSeq(digits, i + 1, i + 1) = "." THEN i
    ELSE DotIndex(digits, i + 1)

\* the formatter that trims nothing: every digit ryu prints is kept
SkipTrailingKeepsAll(digits, c) == digits

\* .rev().skip_while(|b| **b == c): the prefix left once trailing c's are dropped
RECURSIVE SkipTrailing(_, _)
SkipTrailing(digits, c) ==
    IF digits # "" /\ SubSeq(digits, Len(digits), Len(digits)) = c
    THEN SkipTrailing(SubSeq(digits, 1, Len(digits) - 1), c)
    ELSE digits

\* the formatter that pushes no sign
RyuFormatDropsSign(v, precision) ==
    IF IsOne(v) THEN "1"
    ELSE IF IsZero(v) THEN "0"
    ELSE IF InRyuRange(v)
    THEN LET digits == RyuDigits(v)
             cut    == SubSeq(digits, 1, Min(Len(digits), DotIndex(digits, 0) + 1 + precision))
         IN  SkipTrailing(SkipTrailing(cut, "0"), ".")
    ELSE Display(v)

\* <f64 as Formattable>::ryu_format: the bytes pushed to out
RyuFormat(v, precision) ==
    LET sign == IF v.neg /\ ~IsZero(v) THEN "-" ELSE ""
    IN  IF IsOne(v) THEN sign \o "1"
        ELSE IF IsZero(v) THEN sign \o "0"
        ELSE IF InRyuRange(v)
        THEN LET digits    == RyuDigits(v)
                 dot_index == DotIndex(digits, 0)
             IN  IF dot_index < Len(digits)
                 THEN LET cut == SubSeq(digits, 1, Min(Len(digits), dot_index + 1 + precision))
                      IN  sign \o SkipTrailing(SkipTrailing(cut, "0"), ".")
                 ELSE sign \o digits
        ELSE sign \o Display(v)

FormatItem(item, precision) ==
    IF item.kind = "str" THEN item.s ELSE RyuFormat(item, precision)

\* ryu! / ryu_intern!: every item followed by " ", the last by "\n"
RECURSIVE RyuIntern(_, _, _)
RyuIntern(items, precision, i) ==
    IF i = Len(items) THEN FormatItem(items[i], precision) \o "\n"
    ELSE FormatItem(items[i], precision) \o " " \o RyuIntern(items, precision, i + 1)

\* lib.rs calls ryu! with the buffer and the items; the macro of util.rs
\* takes the precision before the items.  Every item a call site lists is
\* formatted, keeping Precision digits after the decimal point.
Precision == 12
Ryu(items) == RyuIntern(items, Precision, 1)

\* ---------------------------------------------------------------- end_page
\* Compression::to_deflate
ToDeflateNeverOff(level) == Some(level)

ToDeflate(level) == IF level = "Off" THEN None ELSE Some(level)

\* deflate::deflate_bytes_zlib_conf is an external crate: its output is
\* modelled as opaque bytes whose length is one of the lengths a zlib stream
\* of an n-byte input can have: a stored block (2-byte header, 5-byte block
\* header, the data, 4-byte checksum) or a shorter encoded block.
DeflateLens(n) == {n + 11, (n \div 2) + 8}

\* The compressed lengths end_page may see for this page buffer (one dummy
\* choice when it does not compress).
ClenChoices(pb, level) ==
    IF pb # "" /\ ToDeflate(level) # None THEN DeflateLens(Len(pb)) ELSE {0}
Deflated(clen) == Repeat("z", clen)

PageStream(pb, level, compressed) ==
    IF ToDeflate(level) # None
    THEN "<< /Length " \o FmtInt(Len(compressed)) \o " /Filter [/FlateDecode] >>\nstream\n"
         \o compressed \o "endstream\n"
    ELSE "<< /Length " \o FmtInt(Len(pb)) \o " >>\nstream\n" \o pb \o "endstream\n"

RECURSIVE XObjectRefs(_, _)
XObjectRefs(objs, i) ==
    IF i > Len(objs) THEN ""
    ELSE (IF objs[i].is_xobject
          THEN "/XObject " \o FmtInt(objs[i].id) \o " 0 R " ELSE "")
         \o XObjectRefs(objs, i + 1)

\* the resource name of the font at 0-based position f: "/F{}"
FontKeyOneBased(f) == "/F" \o FmtInt(f + 1)

FontKey(f) == "/F" \o FmtInt(f)

FontEntry(f, font) ==
    "  /Font <<\n   " \o FontKey(f) \o " <<\n    /Type /Font\n    /Subtype /Type1\n    /BaseFont /"
    \o font \o "\n    /Encoding /WinAnsiEncoding\n   >>\n  >>\n"

\* fonts.iter().enumerate(): positions are 0-based
RECURSIVE FontEntries(_, _)
FontEntries(fnts, i) ==
    IF i > Len(fnts) THEN ""
    ELSE FontEntry(i - 1, fnts[i]) \o FontEntries(fnts, i + 1)

MediaBox(w, h) == "/MediaBox [0 0 " \o FmtInt(w) \o " " \o FmtInt(h) \o "]\n"

PageTail(w, h, stream_object_id) ==
    " >>\n " \o MediaBox(w, h) \o " /Contents " \o FmtInt(stream_object_id) \o " 0 R\n>>\n"

PageObject(objs, fnts, w, h, stream_object_id) ==
    "<< /Type /Page\n /Parent 2 0 R\n /Resources <<\n"
    \o XObjectRefs(objs, 1) \o FontEntries(fnts, 1) \o PageTail(w, h, stream_object_id)

\* The objects after end_page: the content stream, then the page object.
EndPageObjects(objs, pb, level, fnts, w, h, compressed) ==
    LET with_stream == AddObject(objs, PageStream(pb, level, compressed), FALSE, FALSE)
        stream_object_id == with_stream[Len(with_stream)].id
    IN  AddObject(with_stream, PageObject(with_stream, fnts, w, h, stream_object_id),
                  TRUE, FALSE)

\* fonts.truncate(1)
Truncate1(fnts) == IF Len(fnts) > 1 THEN SubSeq(fnts, 1, 1) ELSE fnts

\* ---------------------------------------------------------------- write_to
\* obj.offset = Some(self.buffer.len()), before the object is written
OffsetOfOneBased(buf) == Len(buf) + 1

OffsetOf(buf) == Len(buf)

ObjBytes(o) == FmtInt(o.id) \o " 0 obj\n" \o o.contents \o "endobj\n"

\* for obj in self.objects.iter_mut().skip(2): i is the 1-based position
RECURSIVE WriteBodies(_, _, _)
WriteBodies(objs, buf, i) ==
    IF i > Len(objs) THEN [objects |-> objs, buffer |-> buf]
    ELSE WriteBodies([objs EXCEPT ![i].offset = Some(OffsetOf(buf))],
                     buf \o ObjBytes(objs[i]), i + 1)

\* .skip(2): the catalog and the page tree are written after the others
SkipOneTooMany == 2 + 1

SkipReserved == 2

PageCount(objs) == Cardinality({i \in 1..Len(objs) : objs[i].is_page})

\* .filter(|obj| obj.is_page) of the /Kids loop
KidsFilterAny(o) == ~o.is_xobject

KidsFilter(o) == o.is_page

RECURSIVE Kids(_, _)
Kids(objs, i) ==
    IF i > Len(objs) THEN ""
    ELSE (IF KidsFilter(objs[i]) THEN FmtInt(objs[i].id) \o " 0 R " ELSE "")
         \o Kids(objs, i + 1)

\* The buffer after the page-tree object is written (the pop drops the last
\* byte of the buffer, whatever it is).
WritePageTree(objs, buf) ==
    Pop(buf \o "2 0 obj\n" \o "<< /Type /Pages\n"
            \o "/Count " \o FmtInt(PageCount(objs)) \o "\n"
            \o "/Kids [" \o Kids(objs, 1))
    \o "] >>\nendobj\n"

Catalog == "1 0 obj\n<< /Type /Catalog\n/Pages 2 0 R >>\nendobj\n"

StartXref(buf) == Len(buf) + 1

XrefHead(objs) == "xref\n" \o "0 " \o FmtInt(Len(objs) + 1) \o "\n"
FreeLine == "0000000000 65535 f \n"
XrefLine(offset) == Fmt010(offset) \o " 00000 f \n"

\* self.objects.sort_by(|a, b| a.id.cmp(&b.id)): a stable sort
RECURSIVE InsertById(_, _)
InsertById(sorted, o) ==
    IF sorted = <<>> THEN <<o>>
    ELSE IF sorted[Len(sorted)].id <= o.id THEN Append(sorted, o)
    ELSE Append(InsertById(SubSeq(sorted, 1, Len(sorted) - 1), o), sorted[Len(sorted)])

RECURSIVE SortById(_)
SortById(objs) ==
    IF objs = <<>> THEN <<>>
    ELSE InsertById(SortById(SubSeq(objs, 1, Len(objs) - 1)), objs[Len(objs)])

\* The position (1-based) of the first object whose offset.unwrap() panics,
\* Len + 1 when none does.
RECURSIVE FirstUnresolved(_, _)
FirstUnresolved(objs, i) ==
    IF i > Len(objs) \/ objs[i].offset = None THEN i
    ELSE FirstUnresolved(objs, i + 1)

\* The xref lines of objs[i .. upto - 1]
RECURSIVE XrefLines(_, _, _)
XrefLines(objs, i, upto) ==
    IF i >= upto THEN ""
    ELSE XrefLine(Unwrap(objs[i].offset)) \o XrefLines(objs, i + 1, upto)

Trailer(objs) ==
    "trailer\n" \o "<< /Size " \o FmtInt(Len(objs)) \o "\n" \o "/Root 1 0 R >>\n"

StartXrefTail(sx) == "startxref\n" \o FmtInt(sx) \o "\n" \o "%%EOF"

\* write_to after the pending page is flushed: everything it does to
\* objects and buffer.
Serialize(objs, buf) ==
    LET bodies  == WriteBodies(objs, buf, SkipReserved + 1)
        objs2   == [bodies.objects EXCEPT ![2].offset = Some(OffsetOf(bodies.buffer))]
        buf2    == WritePageTree(objs2, bodies.buffer)
        objs1   == [objs2 EXCEPT ![1].offset = Some(OffsetOf(buf2))]
        buf1    == buf2 \o Catalog
        sx      == StartXref(buf1)
        bufx    == buf1 \o XrefHead(objs1) \o FreeLine
        sorted  == SortById(objs1)
        stop    == FirstUnresolved(sorted, 1)
        lines   == bufx \o XrefLines(sorted, 1, stop)
    IN  [objects   |-> sorted,
         panicked  |-> stop <= Len(sorted),
         startxref |-> sx,
         xref_at   |-> Len(buf1),
         buffer    |-> IF stop <= Len(sorted) THEN lines
                       ELSE lines \o Trailer(sorted) \o StartXrefTail(sx)]

\* ---------------------------------------------------------------- Pdf::new
Init ==
    /\ buffer = Header
    /\ page_buffer = ""
    /\ objects = <<PdfObject("", 1, FALSE, FALSE), PdfObject("", 2, FALSE, FALSE)>>
    /\ width = 400
    /\ height = 400
    /\ fonts = <<"Helvetica">>
    /\ font_size = 12
    /\ current_font_index = 0
    /\ compression = "Fast"
    /\ startxref = None
    /\ panicked = FALSE
    /\ op = [name |-> "new", arg |-> <<>>]
    /\ n_add_page = 0
    /\ n_draw = 0
    /\ n_write = 0
    /\ stray = FALSE
    /\ started = None
    /\ flushed = <<>>
    /\ xref_at = None
    /\ n_ops = 0
    /\ flush_log = <<>>
    /\ appended_from = 0

\* ---------------------------------------------------------------- operations
\* What an end_page call found: the page buffer, the font list, the
\* compression level and the dimensions it read, the operation that called
\* it and that operation's number.
FlushEntry(by, w, h) ==
    [raw |-> page_buffer, fonts |-> fonts, level |-> compression,
     w |-> w, h |-> h, by |-> by, at |-> n_ops + 1]

Preamble == "/DeviceRGB cs /DeviceRGB CS\n1 j 1 J\n"

\* The dimensions end_page reads when add_page(d) flushes the previous page:
\* add_page assigns width and height only after end_page has run.
FlushDimsAfterAssign(w, h, d) == d

FlushDims(w, h, d) == <<w, h>>

\* if !self.page_buffer.is_empty() in add_page
AddPageFlushesAlways(pb) == TRUE

AddPageNeedsFlush(pb) == pb # ""

\* add_page
AddPage(d) ==
    /\ ~panicked
    /\ n_ops < MaxOps
    /\ n_ops' = n_ops + 1
    /\ appended_from' = Len(page_buffer)
    /\ n_add_page < MaxAddPage
    /\ \E clen \in ClenChoices(page_buffer, compression) :
        LET flush == AddPageNeedsFlush(page_buffer)
            dims  == FlushDims(width, height, d)
        IN  /\ objects' = IF flush
                          THEN EndPageObjects(objects, page_buffer, compression, fonts,
                                              dims[1], dims[2], Deflated(clen))
                          ELSE objects
            /\ fonts' = IF flush THEN Truncate1(fonts) ELSE fonts
            /\ page_buffer' = (IF flush THEN "" ELSE page_buffer) \o Preamble
            /\ flushed' = IF flush THEN Append(flushed, started) ELSE flushed
            /\ flush_log' = IF flush THEN Append(flush_log, FlushEntry("add_page", dims[1], dims[2]))
                             ELSE flush_log
    /\ width' = d[1]
    /\ height' = d[2]
    /\ started' = Some(d)
    /\ n_add_page' = n_add_page + 1
    /\ op' = [name |-> "add_page", arg |-> d]
    /\ UNCHANGED <<buffer, font_size, current_font_index, compression, startxref,
                   panicked, n_draw, n_write, stray, xref_at>>

\* compression
SetCompression(level) ==
    /\ ~panicked
    /\ n_ops < MaxOps
    /\ n_ops' = n_ops + 1
    /\ appended_from' = Len(page_buffer)
    /\ compression' = level
    /\ op' = [name |-> "compression", arg |-> <<level>>]
    /\ UNCHANGED <<buffer, page_buffer, objects, width, height, fonts, font_size,
                   current_font_index, startxref, panicked, n_add_page, n_draw,
                   n_write, stray, started, flushed, xref_at, flush_log>>

\* fonts.iter().position(|f| *f == font): 0-based, None when absent
PositionNotFound(fnts, font) == None

Position(fnts, font) ==
    IF \E i \in 1..Len(fnts) : fnts[i] = font
    THEN Some((CHOOSE i \in 1..Len(fnts) :
                  fnts[i] = font /\ \A j \in 1..(i - 1) : fnts[j] # font) - 1)
    ELSE None

\* font
SetFont(font, size) ==
    /\ ~panicked
    /\ n_ops < MaxOps
    /\ n_ops' = n_ops + 1
    /\ appended_from' = Len(page_buffer)
    /\ LET pos == Position(fonts, font)
       IN  IF pos # None
           THEN /\ current_font_index' = Unwrap(pos)
                /\ fonts' = fonts
           ELSE /\ fonts' = Append(fonts, font)
                /\ current_font_index' = Len(fonts') - 1
    /\ font_size' = size
    /\ op' = [name |-> "font", arg |-> <<font, size>>]
    /\ UNCHANGED <<buffer, page_buffer, objects, width, height, compression,
                   startxref, panicked, n_add_page, n_draw, n_write, stray,
                   started, flushed, xref_at, flush_log>>

\* end_line
EndLine ==
    /\ ~panicked
    /\ n_ops < MaxOps
    /\ n_ops' = n_ops + 1
    /\ appended_from' = Len(page_buffer)
    /\ n_draw < MaxDraw
    /\ page_buffer' = page_buffer \o "S\n"
    /\ n_draw' = n_draw + 1
    /\ stray' = (stray \/ n_add_page = 0)
    /\ op' = [name |-> "end_line", arg |-> <<>>]
    /\ UNCHANGED <<buffer, objects, width, height, fonts, font_size,
                   current_font_index, compression, startxref, panicked,
                   n_add_page, n_write, started, flushed, xref_at, flush_log>>

\* draw_dots: the dot form, as a content stream
BezierC == F64(FALSE, 0, "551915024494")
NegC == F64(TRUE, 0, "551915024494")
DotStream ==
    Ryu(<<OfInt(0), OfInt(-1), Str("m")>>)
    \o Ryu(<<NegC, OfInt(-1), OfInt(-1), NegC, OfInt(-1), OfInt(0), Str("c")>>)
    \o Ryu(<<OfInt(-1), BezierC, NegC, OfInt(1), OfInt(0), OfInt(1), Str("c")>>)
    \o Ryu(<<BezierC, OfInt(1), OfInt(1), BezierC, OfInt(1), OfInt(0), Str("c")>>)
    \o Ryu(<<OfInt(1), NegC, BezierC, OfInt(-1), OfInt(0), OfInt(-1), Str("c"), Str("f")>>)

DotObject ==
    "<< /Type /XObject /Subtype /Form /BBox [ -2 -2 2 2 ] /Length "
    \o FmtInt(Len(DotStream)) \o " >>\nstream\n" \o DotStream \o "endstream\n"

\* x - previous.x (and the same for y): the translation from the previous point
DeltaFromOrigin(v, prev) == v

Delta(v, prev) == v - prev

\* for (x, y) in x.iter().zip(y): i is the 1-based position, prev the previous point
RECURSIVE DotOps(_, _, _, _)
DotOps(xs, ys, i, prev) ==
    IF i > Len(xs) \/ i > Len(ys) THEN ""
    ELSE Ryu(<<OfInt(1), OfInt(0), OfInt(0), OfInt(1),
               OfInt(Delta(xs[i], prev[1])), OfInt(Delta(ys[i], prev[2])),
               Str("cm /M0 Do")>>)
         \o DotOps(xs, ys, i + 1, <<xs[i], ys[i]>>)

DrawDots(xs, ys) ==
    /\ ~panicked
    /\ n_ops < MaxOps
    /\ n_ops' = n_ops + 1
    /\ appended_from' = Len(page_buffer)
    /\ n_draw < MaxDraw
    /\ LET with_dot == AddObject(objects, DotObject, FALSE, FALSE)
           id       == with_dot[Len(with_dot)].id
       IN  objects' = AddObject(with_dot, "<< /M0 " \o FmtInt(id) \o " 0 R >>\n",
                                FALSE, TRUE)
    /\ page_buffer' = page_buffer \o "q\n" \o DotOps(xs, ys, 1, <<0, 0>>) \o "Q\n"
    /\ n_draw' = n_draw + 1
    /\ stray' = (stray \/ n_add_page = 0)
    /\ op' = [name |-> "draw_dots", arg |-> <<xs, ys>>]
    /\ UNCHANGED <<buffer, width, height, fonts, font_size, current_font_index,
                   compression, startxref, panicked, n_add_page, n_write,
                   started, flushed, xref_at, flush_log>>

\* if !self.page_buffer.is_empty() in write_to
WriteToFlushesNever(pb) == FALSE

WriteToNeedsFlush(pb) == pb # ""

\* write_to (the file write itself is left out: it does not change the Pdf)
WriteTo ==
    /\ ~panicked
    /\ n_ops < MaxOps
    /\ n_ops' = n_ops + 1
    /\ appended_from' = Len(page_buffer)
    /\ n_write < MaxWrite
    /\ \E clen \in ClenChoices(page_buffer, compression) :
        LET flush == WriteToNeedsFlush(page_buffer)
            objs  == IF flush
                     THEN EndPageObjects(objects, page_buffer, compression, fonts,
                                         width, height, Deflated(clen))
                     ELSE objects
            out   == Serialize(objs, buffer)
        IN  /\ objects' = out.objects
            /\ buffer' = out.buffer
            /\ panicked' = out.panicked
            /\ startxref' = Some(out.startxref)
            /\ xref_at' = Some(out.xref_at)
            /\ fonts' = IF flush THEN Truncate1(fonts) ELSE fonts
            /\ flushed' = IF flush THEN Append(flushed, started) ELSE flushed
            /\ flush_log' = IF flush THEN Append(flush_log, FlushEntry("write_to", width, height))
                             ELSE flush_log
    /\ n_write' = n_write + 1
    /\ op' = [name |-> "write_to", arg |-> <<>>]
    /\ UNCHANGED <<page_buffer, width, height, font_size, current_font_index,
                   compression, n_add_page, n_draw, stray, started>>

Next ==
    \/ \E d \in PageDims : AddPage(d)
    \/ \E level \in Levels : SetCompression(level)
    \/ \E font \in FontNames, size \in FontSizes : SetFont(font, size)
    \/ EndLine
    \/ \E in \in DotsInputs : DrawDots(in[1], in[2])
    \/ WriteTo

Spec == Init /\ [][Next]_vars

\* ---------------------------------------------------------------- move_to, line_to, draw_line
\* ryu!(self.page_buffer, p.x, p.y, "m") and the same with "l"
MoveTo(x, y) == Ryu(<<x, y, Str("m")>>)
LineTo(x, y) == Ryu(<<x, y, Str("l")>>)

\* for (x, y) in x_iter.zip(y_iter) { self.line_to(..) }: i is the 1-based
\* position of the next point in the arrays
RECURSIVE LineOps(_, _, _)
LineOps(xs, ys, i) ==
    IF i > Len(xs) \/ i > Len(ys) THEN ""
    ELSE LineTo(xs[i], ys[i]) \o LineOps(xs, ys, i + 1)

\* if let (Some(x), Some(y)) = (x_iter.next(), y_iter.next()) { move_to; line_to.. }
PathOps(xs, ys) ==
    IF Len(xs) >= 1 /\ Len(ys) >= 1
    THEN MoveTo(xs[1], ys[1]) \o LineOps(xs, ys, 2)
    ELSE ""

\* the bytes draw_line appends: the path, then the stroke operator
DrawLineStrokesPathOnly(xs, ys) == IF PathOps(xs, ys) = "" THEN "" ELSE PathOps(xs, ys) \o "S\n"

DrawLineBytes(xs, ys) == PathOps(xs, ys) \o "S\n"

DrawLine(xs, ys) ==
    /\ ~panicked
    /\ n_ops < MaxOps
    /\ n_ops' = n_ops + 1
    /\ appended_from' = Len(page_buffer)
    /\ n_draw < MaxDraw
    /\ page_buffer' = page_buffer \o DrawLineBytes(xs, ys)
    /\ n_draw' = n_draw + 1
    /\ stray' = (stray \/ n_add_page = 0)
    /\ op' = [name |-> "draw_line", arg |-> <<xs, ys>>]
    /\ UNCHANGED <<buffer, objects, width, height, fonts, font_size,
                   current_font_index, compression, startxref, panicked,
                   n_add_page, n_write, started, flushed, xref_at, flush_log>>

\* ---------------------------------------------------------------- width_of, draw_text
\* The f64 values draw_text computes are modelled exactly, as integer
\* multiples of 1/Scale: glyph widths are hundredths of an em, font sizes
\* and positions are integers (sizes multiples of 3), and the layout halves
\* widths and multiplies sizes by 1.25 and by halves.  Rounding is left out.
Scale == 8 * 25
Abs(n) == IF n < 0 THEN 0 - n ELSE n

\* format!("{}", v) of the f64 value n / Scale
DisplayScaled(n) ==
    LET thousandths == (Abs(n) % Scale) * (1000 \div Scale)
        fd == SkipTrailing(ZeroPad(FmtInt(thousandths), 3), "0")
    IN  (IF n < 0 THEN "-" ELSE "") \o Display(F64(FALSE, Abs(n) \div Scale, fd))

\* fonts::glyph_width, in hundredths of an em (build.rs writes the widths of
\* the font metric files, divided by 1000, with two decimals); `_ => 0.0`
GlyphWidth(font, c) ==
    IF font = "Helvetica"
    THEN (IF c = "A" THEN 67 ELSE IF c = "i" THEN 22 ELSE IF c = " " THEN 28 ELSE 0)
    ELSE IF font = "TimesRoman"
    THEN (IF c = "A" THEN 72 ELSE IF c = "i" THEN 28 ELSE IF c = " " THEN 25 ELSE 0)
    ELSE 0

\* c as u32
CharCode(c) ==
    IF c = "A" THEN 65 ELSE IF c = "i" THEN 105 ELSE IF c = " " THEN 32 ELSE 10

\* format!("{:o}", n)
RECURSIVE Octal(_)
Octal(n) == IF n < 8 THEN FmtInt(n) ELSE Octal(n \div 8) \o FmtInt(n % 8)

\* the position of the first sep in s at or after position from (1-based),
\* Len(s) + 1 when there is none
NextSep(s, sep, from) ==
    CHOOSE p \in from..(Len(s) + 1) :
        /\ p = Len(s) + 1 \/ SubSeq(s, p, p) = sep
        /\ \A q \in from..(p - 1) : SubSeq(s, q, q) # sep

\* str::split(sep): the pieces between the separators (one more than there
\* are separators), from position from on
RECURSIVE SplitFrom(_, _, _)
SplitFrom(s, sep, from) ==
    LET p == NextSep(s, sep, from)
    IN  <<SubSeq(s, from, p - 1)>>
        \o (IF p > Len(s) THEN <<>> ELSE SplitFrom(s, sep, p + 1))
Split(s, sep) == SplitFrom(s, sep, 1)

\* text.chars().filter(|c| *c != '\n').map(|c| glyph_width(font, c)).sum(),
\* in hundredths of an em
RECURSIVE GlyphSum(_, _, _)
GlyphSum(font, text, i) ==
    IF i > Len(text) THEN 0
    ELSE (IF SubSeq(text, i, i) = "\n" THEN 0 ELSE GlyphWidth(font, SubSeq(text, i, i)))
         + GlyphSum(font, text, i + 1)

\* width_of (times Scale), for a current font index inside the font list
WidthOf(fnts, index, size, text) ==
    GlyphSum(fnts[index + 1], text, 1) * size * (Scale \div 100)

\* the line_y of the three vertical alignments (times Scale); y is scaled,
\* l and num_lines are the integers the code converts to f64
TopYFromLineIndex(y, h, l, num_lines) == y - Scale * h * l

TopY(y, h, l, num_lines) == y - Scale * h * (l + 1)
CenterY(y, h, l, num_lines) ==
    (y - (Scale * h) \div 3) - ((2 * l - (num_lines - 1)) * h * 5 * Scale) \div 8
BottomY(y, h, l, num_lines) == y + ((num_lines - l - 1) * 5 * h * Scale) \div 4

\* let (line_x, line_y) = match alignment { .. }
LineOrigin(alignment, x, y, h, l, num_lines, line_width) ==
    CASE alignment = "TopLeft"      -> <<x, TopY(y, h, l, num_lines)>>
      [] alignment = "TopRight"     -> <<x - line_width, TopY(y, h, l, num_lines)>>
      [] alignment = "TopCenter"    -> <<x - line_width \div 2, TopY(y, h, l, num_lines)>>
      [] alignment = "CenterLeft"   -> <<x, CenterY(y, h, l, num_lines)>>
      [] alignment = "CenterRight"  -> <<x - line_width, CenterY(y, h, l, num_lines)>>
      [] alignment = "CenterCenter" -> <<x - line_width \div 2, CenterY(y, h, l, num_lines)>>
      [] alignment = "BottomLeft"   -> <<x, BottomY(y, h, l, num_lines)>>
      [] alignment = "BottomRight"  -> <<x - line_width, BottomY(y, h, l, num_lines)>>
      [] alignment = "BottomCenter" -> <<x - line_width \div 2, BottomY(y, h, l, num_lines)>>

\* for c in line.chars() { format!("\\{:o}", c as u32) }
RECURSIVE Escaped(_, _)
Escaped(line, i) ==
    IF i > Len(line) THEN ""
    ELSE "\\" \o Octal(CharCode(SubSeq(line, i, i))) \o Escaped(line, i + 1)

\* the body of the loop over text.split('\n').enumerate(), from line l (0-based) on
RECURSIVE TextLines(_, _, _, _, _, _, _, _)
TextLines(lines, l, alignment, x, y, fnts, index, size) ==
    IF l >= Len(lines) THEN ""
    ELSE LET line       == lines[l + 1]
             line_width == WidthOf(fnts, index, size, line)
             origin     == LineOrigin(alignment, x, y, size, l, Len(lines), line_width)
         IN  "1 0 0 1 " \o DisplayScaled(origin[1]) \o " " \o DisplayScaled(origin[2])
             \o " Tm (" \o Escaped(line, 1) \o ") Tj\n"
             \o TextLines(lines, l + 1, alignment, x, y, fnts, index, size)

\* draw_text: position is <<x, y>>.  width_of indexes the font list with the
\* current font index and panics when it is out of bounds, after the BT
\* line was appended.
DrawText(position, alignment, text) ==
    /\ ~panicked
    /\ n_ops < MaxOps
    /\ n_ops' = n_ops + 1
    /\ appended_from' = Len(page_buffer)
    /\ n_draw < MaxDraw
    /\ LET head == "BT\n/F" \o FmtInt(current_font_index) \o " " \o FmtInt(font_size) \o " Tf\n"
       IN  IF current_font_index < Len(fonts)
           THEN /\ page_buffer' = page_buffer \o head
                       \o TextLines(Split(text, "\n"), 0, alignment,
                                    Scale * position[1], Scale * position[2],
                                    fonts, current_font_index, font_size)
                       \o "ET\n"
                /\ panicked' = FALSE
           ELSE /\ page_buffer' = page_buffer \o head
                /\ panicked' = TRUE
    /\ n_draw' = n_draw + 1
    /\ stray' = (stray \/ n_add_page = 0)
    /\ op' = [name |-> "draw_text", arg |-> <<position, alignment, text>>]
    /\ UNCHANGED <<buffer, objects, width, height, fonts, font_size,
                   current_font_index, compression, startxref,
                   n_add_page, n_write, started, flushed, xref_at, flush_log>>

\* ---------------------------------------------------------------- the drawing calls
\* A second specification: short call sequences on a new document, with the
\* drawing calls given many inputs.
MaxDrawOps == 2

\* draw_line inputs <<xs, ys>>: no point, xs only, one point, and arrays of
\* different lengths either way
LineInputs ==
    {<< <<>>, <<>> >>,
     << <<OfInt(5)>>, <<>> >>,
     << <<OfInt(1)>>, <<F64(TRUE, 2, "5")>> >>,
     << <<OfInt(0), OfInt(7), OfInt(-3)>>, <<OfInt(4), F64(FALSE, 0, "25")>> >>,
     << <<OfInt(2), OfInt(6)>>, <<OfInt(1), OfInt(8), OfInt(9)>> >>}
DotsInputsDraw ==
    DotsInputs \cup {<< <<4, -2, 6>>, <<-1, 0>> >>, << <<2>>, <<>> >>}
DrawFontSizes == {9, 12}
DrawPageDims == {<<180, 240>>}
TextPositions == {<<10, 20>>}
Alignments ==
    {"TopLeft", "TopRight", "TopCenter", "CenterLeft", "CenterRight", "CenterCenter",
     "BottomLeft", "BottomRight", "BottomCenter"}
\* one line, two lines, and three lines the middle one empty
Texts == {"Ai", "A\ni i", "i\n\nA"}

\* the calls of a short sequence
Short == n_ops < MaxDrawOps

NextDraw ==
    \/ \E d \in DrawPageDims : Short /\ AddPage(d)
    \/ \E font \in FontNames, size \in DrawFontSizes : Short /\ SetFont(font, size)
    \/ \E in \in LineInputs : Short /\ DrawLine(in[1], in[2])
    \/ \E in \in DotsInputsDraw : Short /\ DrawDots(in[1], in[2])
    \/ \E position \in TextPositions, alignment \in Alignments, text \in Texts :
           Short /\ DrawText(position, alignment, text)

SpecDraw == Init /\ [][NextDraw]_vars

\* ================================================================ properties
\* ---------------------------------------------------------------- reading the output
IsDigit(c) == \E d \in 0..9 : ToString(d) = c
DigitOf(c) == CHOOSE d \in 0..9 : ToString(d) = c

RECURSIVE IsDigits(_)
IsDigits(t) ==
    \/ t = ""
    \/ IsDigit(SubSeq(t, 1, 1)) /\ IsDigits(SubSeq(t, 2, Len(t)))

\* the value of a string of decimal digits
RECURSIVE ParseDec(_)
ParseDec(t) ==
    IF t = "" THEN 0
    ELSE 10 * ParseDec(SubSeq(t, 1, Len(t) - 1)) + DigitOf(SubSeq(t, Len(t), Len(t)))

\* the position just after the first "\n" at or after position p
RECURSIVE LineEnd(_, _)
LineEnd(buf, p) ==
    IF p >= Len(buf) THEN Len(buf)
    ELSE IF Slice(buf, p, 1) = "\n" THEN p + 1
    ELSE LineEnd(buf, p + 1)

EndsWith(b, t) == Len(b) >= Len(t) /\ SubSeq(b, Len(b) - Len(t) + 1, Len(b)) = t

\* the state right after a write_to that returned
Written == op.name = "write_to" /\ ~panicked

\* In such a state: where the last xref section starts, where its 20-byte
\* entries start (after the "xref" line and the "0 n" line), the entry of
\* object i (0 is the free-list head) and where the trailer starts.
XrefAt == Unwrap(xref_at)
XrefEntries == LineEnd(buffer, LineEnd(buffer, XrefAt))
XrefEntry(i) == Slice(buffer, XrefEntries + 20 * i, 20)
TrailerAt == XrefEntries + 20 * (Len(objects) + 1)

ObjToken(id) == FmtInt(id) \o " 0 obj\n"

\* C1: after write_to, the offset recorded in the cross-reference entry of
\* every object id (catalog 1 and page tree 2 included) is the byte position
\* in the output buffer at which that object's "<id> 0 obj" token starts;
\* in the first write_to the first object written starts right after the
\* file header.
XrefOffsetsAreTokenPositions ==
    Written =>
        /\ \A i \in 1..Len(objects) :
              LET recorded == Slice(buffer, XrefEntries + 20 * i, 10)
              IN  /\ IsDigits(recorded)
                  /\ Slice(buffer, ParseDec(recorded), Len(ObjToken(i))) = ObjToken(i)
        /\ n_write = 1 =>
              \E i \in 1..Len(objects) :
                  ParseDec(Slice(buffer, XrefEntries + 20 * i, 10)) = Len(Header)

\* a document with an xobject, two flushed pages and eight objects was written
XrefOffsetsWitness ==
    /\ Written
    /\ Len(objects) = 8
    /\ PageCount(objects) = 2
    /\ \E i \in 1..Len(objects) : objects[i].is_xobject

\* C2: in the cross-reference section the entry of object 0 is the free-list
\* head "0000000000 65535 f \n" and every other object has one 20-byte entry,
\* in ascending id order, made of its offset zero-padded to 10 digits and
\* " 00000 n \n" (in use).
XrefEntriesMarkedInUse ==
    Written =>
        /\ XrefEntry(0) = "0000000000 65535 f \n"
        /\ \A i \in 1..Len(objects) :
              /\ objects[i].id = i
              /\ XrefEntry(i) = Fmt010(Unwrap(objects[i].offset)) \o " 00000 n \n"
        /\ Slice(buffer, TrailerAt, 8) = "trailer\n"

\* C3: the /Size written in the trailer is the number of objects plus one,
\* the count the xref header line "0 n" declares.
TrailerSizeIsXrefCount ==
    Written =>
        LET n == FmtInt(Len(objects) + 1)
        IN  /\ Slice(buffer, XrefAt, Len("xref\n0 " \o n \o "\n")) = "xref\n0 " \o n \o "\n"
            /\ Slice(buffer, TrailerAt, Len("trailer\n<< /Size " \o n \o "\n"))
                   = "trailer\n<< /Size " \o n \o "\n"

\* C4: the number written after "startxref" is the byte position at which
\* the "xref" keyword begins.
StartXrefIsXrefPosition ==
    Written =>
        /\ Slice(buffer, XrefAt, 5) = "xref\n"
        /\ EndsWith(buffer, "startxref\n" \o FmtInt(XrefAt) \o "\n%%EOF")

\* the ids of the first n objects
IdsOf(objs, n) == {objs[j].id : j \in 1..n}
\* the ids are 1..n in list order
IdsDense == \A i \in 1..Len(objects) : objects[i].id = i
\* a step keeps the objects it found; each object it appends gets the id
\* max(ids before it) + 1, which is new and not reserved
AllocatesFreshIds ==
    /\ Len(objects') >= Len(objects)
    /\ \A j \in 1..Len(objects) :
          /\ objects'[j].id = objects[j].id
          /\ objects'[j].contents = objects[j].contents
    /\ \A j \in (Len(objects) + 1)..Len(objects') :
          /\ objects'[j].id = MaxOf(IdsOf(objects', j - 1)) + 1
          /\ objects'[j].id \notin {1, 2}
          /\ objects'[j].id \notin IdsOf(objects', j - 1)
\* C5: object ids are pairwise distinct and exactly 1..n in list order (no
\* id skipped or reused); an operation only appends objects, each new id is
\* max(existing ids) + 1 and is neither of the reserved ids 1 and 2.
IdsMonotone == []IdsDense /\ [][AllocatesFreshIds]_vars

\* draw_dots, a page flush and a write_to have allocated and sorted objects
IdsMonotoneWitness ==
    /\ Written
    /\ Len(objects) >= 6
    /\ \E i \in 1..Len(objects) : objects[i].is_xobject

\* where the body of the object at position i ends: the reserved objects
\* are written last, the page tree (2) before the catalog (1)
BodyEnd(objs, i, xref) ==
    IF i = 1 THEN xref
    ELSE IF i = 2 THEN Unwrap(objs[1].offset)
    ELSE Unwrap(objs[i].offset) + Len(ObjBytes(objs[i]))
\* a write_to step resolves every offset and appends, before the xref
\* keyword, one body per object: the bodies tile the appended region
EveryObjectWrittenOnce ==
    n_write' = n_write + 1 =>
        /\ ~panicked'
        /\ \A i \in 1..Len(objects') : objects'[i].offset # None
        /\ LET n      == Len(objects')
               off(i) == Unwrap(objects'[i].offset)
               end(i) == BodyEnd(objects', i, Unwrap(xref_at'))
               Starts == {off(i) : i \in 1..n}
               Ends   == {end(i) : i \in 1..n}
           IN  /\ \A i \in 1..n :
                     /\ Slice(buffer', off(i), Len(ObjToken(objects'[i].id)))
                            = ObjToken(objects'[i].id)
                     /\ Slice(buffer', end(i) - 7, 7) = "endobj\n"
                     /\ off(i) < end(i)
               /\ \A i \in 3..n :
                     Slice(buffer', off(i), end(i) - off(i)) = ObjBytes(objects'[i])
               /\ Cardinality(Starts) = n
               /\ Cardinality(Ends) = n
               /\ Len(buffer) \in Starts
               /\ Ends = (Starts \ {Len(buffer)}) \cup {Unwrap(xref_at')}
               /\ Slice(buffer', Unwrap(xref_at'), 5) = "xref\n"
OnePagePerAddPage ==
    /\ (Written /\ n_write = 1) => PageCount(objects) = n_add_page
    /\ (op.name = "add_page" /\ n_add_page = 1 /\ n_write = 0) => PageCount(objects) = 0

\* the page begun without add_page, by drawing on a new document
ImplicitPage == IF stray THEN 1 ELSE 0

\* C7 as amended: the count is k plus one for the implicit page when a
\* drawing call wrote to the page buffer before the first add_page; the
\* first add_page flushes nothing exactly when no such call preceded it.
OnePagePerAddPageOrImplicit ==
    /\ (Written /\ n_write = 1) => PageCount(objects) = n_add_page + ImplicitPage
    /\ (op.name = "add_page" /\ n_add_page = 1 /\ n_write = 0) =>
          /\ PageCount(objects) = ImplicitPage
          /\ Len(flushed) = ImplicitPage
    /\ PageCount(objects) = Len(flushed)

\* two add_page calls on a new document, then write_to: two page objects
OnePagePerAddPageWitness ==
    Written /\ n_write = 1 /\ n_add_page = 2 /\ ~stray /\ PageCount(objects) = 2

\* the objects without their offsets
StripOffsets(objs) == [i \in 1..Len(objs) |-> [objs[i] EXCEPT !.offset = None]]
\* what a write_to step does to the object list
WriteToFlushesFirst ==
    n_write' = n_write + 1 =>
        IF page_buffer # ""
        THEN LET n == Len(objects)
             IN  /\ Len(objects') = n + 2
                 /\ ~objects'[n + 1].is_page /\ ~objects'[n + 1].is_xobject
                 /\ objects'[n + 2].is_page /\ ~objects'[n + 2].is_xobject
                 /\ EndsWith(objects'[n + 1].contents, "endstream\n")
                 /\ EndsWith(objects'[n + 2].contents,
                             " /Contents " \o FmtInt(objects'[n + 1].id) \o " 0 R\n>>\n")
                 /\ \E clen \in ClenChoices(page_buffer, compression) :
                       StripOffsets(objects')
                           = StripOffsets(EndPageObjects(objects, page_buffer, compression,
                                                         fonts, width, height, Deflated(clen)))
                 /\ \A i \in {n + 1, n + 2} :
                       /\ objects'[i].offset # None
                       /\ Unwrap(objects'[i].offset) >= Len(buffer)
                       /\ Slice(buffer', Unwrap(objects'[i].offset), Len(ObjBytes(objects'[i])))
                              = ObjBytes(objects'[i])
        ELSE StripOffsets(objects') = StripOffsets(objects)
\* C8: a write_to that finds the page buffer non-empty allocates the content
\* stream object and then the page object, the two objects an add_page flush
\* of the same state allocates, and writes both with the others; with an
\* empty page buffer it allocates nothing.
WriteToFlushesPendingPage == [][WriteToFlushesFirst]_vars

\* write_to flushed a pending page on top of an earlier flushed one
WriteToFlushesWitness ==
    Written /\ n_write = 1 /\ PageCount(objects) = 2 /\ page_buffer # ""

\* the positions of the page objects, in list order
RECURSIVE PagePositions(_, _)
PagePositions(objs, i) ==
    IF i > Len(objs) THEN <<>>
    ELSE (IF objs[i].is_page THEN <<i>> ELSE <<>>) \o PagePositions(objs, i + 1)

\* C9: the MediaBox of every page object begun by an add_page is [0 0 w h]
\* with the w and h given to that add_page, also when a later add_page with
\* other dimensions triggered the flush.
MediaBoxFromAddPage ==
    LET pages == PagePositions(objects, 1)
    IN  /\ Len(pages) = Len(flushed)
        /\ \A k \in 1..Len(flushed) :
              flushed[k] # None =>
                  LET d == Unwrap(flushed[k])
                      p == objects[pages[k]]
                  IN  EndsWith(p.contents,
                               " >>\n /MediaBox [0 0 " \o FmtInt(d[1]) \o " " \o FmtInt(d[2])
                               \o "]\n /Contents " \o FmtInt(p.id - 1) \o " 0 R\n>>\n")

\* a page begun with 180x240 was flushed by an add_page asking for 400x300
MediaBoxWitness ==
    /\ op.name = "add_page"
    /\ flushed = <<Some(<<180, 240>>)>>
    /\ width = 400 /\ height = 300
    /\ PageCount(objects) = 1

NoFontTwice == \A i, j \in 1..Len(fonts) : fonts[i] = fonts[j] => i = j
\* what a font(f, size) step does to the font list and the current index
FontSelects ==
    (n_ops' = n_ops + 1 /\ op'.name = "font") =>
        LET f == op'.arg[1]
        IN  IF \E i \in 1..Len(fonts) : fonts[i] = f
            THEN /\ fonts' = fonts
                 /\ current_font_index' < Len(fonts)
                 /\ fonts[current_font_index' + 1] = f
            ELSE /\ fonts' = Append(fonts, f)
                 /\ current_font_index' = Len(fonts)
\* C10: the font list never holds a font twice; font(f, size) with f in the
\* list leaves the list unchanged and makes the position of f current, with
\* f not in the list it appends f and makes the new last position current.
FontDeduplication == []NoFontTwice /\ [][FontSelects]_vars

\* Helvetica selected again once TimesRoman is second in the list
FontDeduplicationWitness ==
    /\ op.name = "font" /\ op.arg[1] = "Helvetica"
    /\ fonts = <<"Helvetica", "TimesRoman">>
    /\ current_font_index = 0

\* the operation just called ran end_page
LastOpFlushed == flush_log # <<>> /\ flush_log[Len(flush_log)].at = n_ops

\* C11: every page flush, by add_page or by write_to, ends with the page
\* buffer cleared (add_page then begins the next page with the preamble) and
\* with the font list holding the default font only.
FlushClearsPageAndFonts ==
    LastOpFlushed =>
        /\ fonts = <<"Helvetica">>
        /\ op.name = "write_to" => page_buffer = ""
        /\ op.name = "add_page" => page_buffer = Preamble

\* the page object the k-th flush allocated
FlushedPage(k) == objects[PagePositions(objects, 1)[k]]

\* one font entry per element of fnts from position i on, the entry of the
\* 0-based position f named F<f> and carrying the BaseFont of that element
RECURSIVE OneEntryPerFont(_, _)
OneEntryPerFont(fnts, i) ==
    IF i > Len(fnts) THEN ""
    ELSE "  /Font <<\n   /F" \o ToString(i - 1)
         \o " <<\n    /Type /Font\n    /Subtype /Type1\n    /BaseFont /" \o fnts[i]
         \o "\n    /Encoding /WinAnsiEncoding\n   >>\n  >>\n"
         \o OneEntryPerFont(fnts, i + 1)

\* where t occurs in s (0-based positions)
Occurrences(s, t) == {p \in 0..(Len(s) - Len(t)) : Slice(s, p, Len(t)) = t}

ResourcesOpen == "<< /Type /Page\n /Parent 2 0 R\n /Resources <<\n"

\* the resource dictionary of every flushed page closes with exactly those
\* entries for the font list of its flush, and holds no font entry before
FontResources ==
    /\ Len(flush_log) = PageCount(objects)
    /\ \A k \in 1..Len(flush_log) :
          LET c       == FlushedPage(k).contents
              entries == OneEntryPerFont(flush_log[k].fonts, 1)
              close   == " >>\n /MediaBox [0 0 " \o ToString(flush_log[k].w) \o " "
                         \o ToString(flush_log[k].h) \o "]\n /Contents "
                         \o ToString(FlushedPage(k).id - 1) \o " 0 R\n>>\n"
              rest    == Len(c) - Len(ResourcesOpen) - Len(entries) - Len(close)
          IN  /\ rest >= 0
              /\ Slice(c, 0, Len(ResourcesOpen)) = ResourcesOpen
              /\ Slice(c, Len(ResourcesOpen) + rest, Len(entries) + Len(close))
                     = entries \o close
              /\ Occurrences(Slice(c, Len(ResourcesOpen), rest), "/F") = {}
              /\ NoFontTwice
              /\ \A i, j \in 1..Len(flush_log[k].fonts) :
                    flush_log[k].fonts[i] = flush_log[k].fonts[j] => i = j

\* between flushes the font list only grows at its end, so the index a
\* selection returned still names the same font when the page is flushed
FontIndexKept ==
    Len(flush_log') = Len(flush_log) =>
        /\ Len(fonts') >= Len(fonts)
        /\ SubSeq(fonts', 1, Len(fonts)) = fonts
        /\ op'.name = "font" => fonts'[current_font_index' + 1] = op'.arg[1]

\* C12: the resource dictionary of each flushed page contains exactly one
\* font entry per element of the font list at flush time, the entry for
\* position i named F<i> with that font's BaseFont; a font selected on the
\* page keeps the index returned at selection and appears once, under it.
FontEntryPerListElement == []FontResources /\ [][FontIndexKept]_vars

\* a page flushed with TimesRoman selected next to the default font
FontEntryWitness ==
    /\ LastOpFlushed
    /\ flush_log[Len(flush_log)].fonts = <<"Helvetica", "TimesRoman">>
    /\ Cardinality(Occurrences(FlushedPage(Len(flush_log)).contents, "/BaseFont /")) = 2

\* the references "<id> 0 R" of the page objects from position i on, in list
\* order (the order of creation: ids are allocated in increasing order), one
\* space between two references
RECURSIVE PageRefs(_, _)
PageRefs(pages, i) ==
    IF i > Len(pages) THEN ""
    ELSE ToString(objects[pages[i]].id) \o " 0 R"
         \o (IF i < Len(pages) THEN " " ELSE "") \o PageRefs(pages, i + 1)

\* the page-tree object the last write_to wrote: from its offset to the catalog's
PageTreeBody ==
    Slice(buffer, Unwrap(objects[2].offset),
          Unwrap(objects[1].offset) - Unwrap(objects[2].offset))

\* C13: the page-tree object (id 2) written by write_to has /Count equal to
\* the number of is_page objects and a /Kids array holding a reference
\* "<id> 0 R" for every is_page object and no other, in creation order.
PageTreeCountAndKids ==
    Written =>
        PageTreeBody = "2 0 obj\n<< /Type /Pages\n/Count "
                       \o ToString(PageCount(objects)) \o "\n/Kids ["
                       \o PageRefs(PagePositions(objects, 1), 1) \o "] >>\nendobj\n"

\* ---------------------------------------------------------------- references
\* The indirect references "<id> 0 R" of s: for each " 0 R" the digits right
\* before it (at most three; none gives an id no object has) and where they start.
DigitsBefore(s, p) == MaxOf({k \in 0..Min(3, p) : IsDigits(Slice(s, p - k, k))})
RefAt(s, p) ==
    LET k == DigitsBefore(s, p)
    IN  [id |-> IF k = 0 THEN 0 - 1 ELSE ParseDec(Slice(s, p - k, k)), at |-> p - k]
Refs(s) == {RefAt(s, p) : p \in Occurrences(s, " 0 R")}
\* the reference r of s is the value of the dictionary key `key`
HasKey(s, r, key) ==
    r.at > Len(key) /\ Slice(s, r.at - Len(key) - 1, Len(key) + 1) = key \o " "

Exists(id) == \E i \in 1..Len(objects) : objects[i].id = id
ObjectOf(id) == objects[CHOOSE i \in 1..Len(objects) : objects[i].id = id]
IsStream(o) == ~o.is_page /\ ~o.is_xobject /\ EndsWith(o.contents, "endstream\n")
\* the reference a page object ends with: " /Contents <id> 0 R\n>>\n"
LastRef(o) == RefAt(o.contents, Len(o.contents) - Len(" 0 R\n>>\n"))

\* the references R of a page object
PageRefsResolve(o, R) ==
    LET c == o.contents
    IN  /\ \A r \in R :
              /\ Exists(r.id)
              /\ \/ HasKey(c, r, "/Parent") /\ r.id = 2
                 \/ HasKey(c, r, "/XObject") /\ ObjectOf(r.id).is_xobject
                 \/ HasKey(c, r, "/Contents") /\ r = LastRef(o)
                                              /\ IsStream(ObjectOf(r.id))
                                              /\ r.id = o.id - 1
        /\ \E q \in R : HasKey(c, q, "/Parent")
        /\ LastRef(o) \in R
        /\ HasKey(c, LastRef(o), "/Contents")

\* the references R of the resource object draw_dots allocates
XObjectRefsResolve(o, R) ==
    LET c == o.contents
    IN  /\ Cardinality(R) = 1
        /\ \A r \in R :
              /\ HasKey(c, r, "/M0")
              /\ Exists(r.id)
              /\ IsStream(ObjectOf(r.id))
              /\ Slice(ObjectOf(r.id).contents, 0, 33) = "<< /Type /XObject /Subtype /Form "

\* the references of what write_to wrote after the other objects: the page
\* tree, the catalog and the trailer
TailRefsResolve ==
    LET tree_at == Unwrap(objects[2].offset)
        cat_at  == Unwrap(objects[1].offset)
        catalog == Slice(buffer, cat_at, XrefAt - cat_at)
        trailer == Slice(buffer, TrailerAt, Len(buffer) - TrailerAt)
    IN  /\ \A T \in {Refs(PageTreeBody)} :
              /\ {r.id : r \in T}
                     = {objects[i].id : i \in {j \in 1..Len(objects) : objects[j].is_page}}
              /\ \A r \in T : r.at > Len("2 0 obj\n<< /Type /Pages\n/Count 0\n/Kids")
        /\ Slice(buffer, tree_at, Len(ObjToken(2))) = ObjToken(2)
        /\ Slice(buffer, cat_at, Len(ObjToken(1))) = ObjToken(1)
        /\ \A C \in {Refs(catalog)} :
              /\ Cardinality(C) = 1
              /\ \A r \in C : HasKey(catalog, r, "/Pages") /\ r.id = 2
        /\ \A T \in {Refs(trailer)} :
              /\ Cardinality(T) = 1
              /\ \A r \in T : HasKey(trailer, r, "/Root") /\ r.id = 1

\* C14: every object id referenced from emitted content exists in the
\* object list: a page's /Contents names the stream object allocated for
\* it and no other page names it, every /Kids id is a page object (and every
\* page object is a kid), /XObject names a resource object and /M0 the form
\* stream, /Parent names object 2, /Pages object 2 and /Root object 1.
ReferencesResolve ==
    /\ Exists(1) /\ Exists(2)
    /\ \A i \in 1..Len(objects) :
          (objects[i].is_page \/ objects[i].is_xobject) =>
              \A R \in {Refs(objects[i].contents)} :
                  IF objects[i].is_page THEN PageRefsResolve(objects[i], R)
                  ELSE XObjectRefsResolve(objects[i], R)
    /\ \A i, j \in 1..Len(objects) :
          (objects[i].is_page /\ objects[j].is_page /\ i # j)
              => LastRef(objects[i]).id # LastRef(objects[j]).id
    /\ Written => TailRefsResolve

\* a written document whose two pages both list the resource object of a
\* draw_dots call
ReferencesWitness ==
    /\ Written
    /\ PageCount(objects) = 2
    /\ \A i \in 1..Len(objects) :
          objects[i].is_page =>
              \E r \in Refs(objects[i].contents) : HasKey(objects[i].contents, r, "/XObject")

\* ---------------------------------------------------------------- content streams
MinOf(S) == CHOOSE m \in S : \A x \in S : m <= x

\* the content-stream object the k-th flush allocated (right before its page object)
FlushedStream(k) == ObjectOf(FlushedPage(k).id - 1)
\* its dictionary (up to the "stream" keyword) and the bytes it stores
StreamDict(c) == Slice(c, 0, MinOf(Occurrences(c, "stream\n")))
StreamBytes(c) ==
    LET from == Len(StreamDict(c)) + Len("stream\n")
    IN  Slice(c, from, Len(c) - from - Len("endstream\n"))
\* the /Length the dictionary declares
DeclaredLength(c) ==
    LET digits == MaxOf({k \in 0..5 : IsDigits(Slice(c, Len("<< /Length "), k))})
    IN  ParseDec(Slice(c, Len("<< /Length "), digits))
FilterTokens(c) == Cardinality(Occurrences(StreamDict(c), "/FlateDecode"))
CompressedFlush(k) == flush_log[k].level # "Off"

\* C15: with compression enabled the content-stream dictionary of a flushed
\* page holds one /FlateDecode token per round that strictly shrank the
\* buffer (so t tokens come with stored bytes at least t shorter than the
\* raw page); when no round shrinks it, there is no /Filter entry and the
\* raw page bytes are stored.
FilterTokenPerShrinkingRound ==
    \A k \in 1..Len(flush_log) :
        CompressedFlush(k) =>
            LET c   == FlushedStream(k).contents
                raw == flush_log[k].raw
            IN  IF FilterTokens(c) = 0
                THEN /\ Occurrences(StreamDict(c), "/Filter") = {}
                     /\ StreamBytes(c) = raw
                ELSE Len(StreamBytes(c)) <= Len(raw) - FilterTokens(c)

\* C16: the stream bytes stored in the content-stream object, and the
\* /Length declared for them, are never longer than the raw page buffer.
StoredNeverLongerThanRaw ==
    \A k \in 1..Len(flush_log) :
        LET c == FlushedStream(k).contents
        IN  /\ Len(StreamBytes(c)) <= Len(flush_log[k].raw)
            /\ DeclaredLength(c) <= Len(flush_log[k].raw)

\* what a compression(level) step leaves alone, and what a flush reads
CompressionFrame ==
    /\ (n_ops' = n_ops + 1 /\ op'.name = "compression") =>
          /\ compression' = op'.arg[1]
          /\ objects' = objects
          /\ buffer' = buffer
          /\ page_buffer' = page_buffer
          /\ flush_log' = flush_log
    /\ (n_ops' = n_ops + 1 /\ op'.name # "compression") => compression' = compression
    /\ Len(flush_log') = Len(flush_log) + 1 =>
          LET c == objects'[Len(objects) + 1].contents
          IN  /\ \A i \in 1..Len(objects) : objects'[i].contents = objects[i].contents
              /\ IsStream(objects'[Len(objects) + 1])
              /\ IF compression = "Off"
                 THEN /\ FilterTokens(c) = 0
                      /\ StreamBytes(c) = page_buffer
                 ELSE /\ FilterTokens(c) = 1
                      /\ StreamBytes(c) = Repeat("z", DeclaredLength(c))

\* C17: compression(level) does not affect data produced before the last
\* add_page: it changes no object, nor the output or the page buffer; the
\* level applies to the pages flushed after the call, a flush leaving the
\* contents of every object allocated earlier unchanged.
CompressionAppliesToLaterFlushes == [][CompressionFrame]_vars

\* a page flushed compressed, compression switched off, and the next page
\* flushed raw next to the first one's stream
CompressionWitness ==
    /\ LastOpFlushed
    /\ Len(flush_log) = 2
    /\ flush_log[1].level = "Fast" /\ flush_log[2].level = "Off"
    /\ FilterTokens(FlushedStream(1).contents) = 1
    /\ FilterTokens(FlushedStream(2).contents) = 0

\* ---------------------------------------------------------------- reading the page buffer
\* what the last operation appended to the page buffer
Appended == SubSeq(page_buffer, appended_from + 1, Len(page_buffer))
\* the lines of s, every one ended by "\n"
OutLines(s) ==
    IF s = "" THEN <<>>
    ELSE LET pieces == Split(s, "\n") IN SubSeq(pieces, 1, Len(pieces) - 1)
Tokens(line) == Split(line, " ")
\* a call of the operation `name` keeps the bytes of the page buffer and
\* appends to them
AppendsOnly(name) ==
    (n_ops' = n_ops + 1 /\ op'.name = name) =>
        /\ appended_from' = Len(page_buffer)
        /\ Len(page_buffer') >= Len(page_buffer)
        /\ SubSeq(page_buffer', 1, Len(page_buffer)) = page_buffer

\* what a draw_line(xs, ys) step appends
DrawLineEmits ==
    op.name = "draw_line" =>
        LET xs    == op.arg[1]
            ys    == op.arg[2]
            n     == Min(Len(xs), Len(ys))
            lines == OutLines(Appended)
        IN  /\ EndsWith(Appended, "\n")
            /\ Len(lines) = n + 1
            /\ lines[n + 1] = "S"
            /\ n >= 1 => Tokens(lines[1])
                             = <<RyuFormat(xs[1], Precision), RyuFormat(ys[1], Precision), "m">>
            /\ \A i \in 2..n :
                  Tokens(lines[i])
                      = <<RyuFormat(xs[i], Precision), RyuFormat(ys[i], Precision), "l">>

\* C18: draw_line emits one move_to for the first point, one line_to for
\* each subsequent point, then exactly one stroke operator "S"; with zero
\* or one point it still emits the stroke; with x and y sequences of
\* different lengths it uses the first min(len x, len y) points.
DrawLineMoveLinesStroke == []DrawLineEmits /\ [][AppendsOnly("draw_line")]_vars

\* draw_line with three x and two y: a move_to, one line_to and the stroke
DrawLineWitness ==
    /\ op.name = "draw_line"
    /\ Len(op.arg[1]) = 3 /\ Len(op.arg[2]) = 2
    /\ EndsWith(page_buffer, "\n0 4 m\n7 0.25 l\nS\n")

\* a decimal integer with an optional sign
IsSigned(t) ==
    /\ t # "" /\ t # "-"
    /\ IsDigits(IF SubSeq(t, 1, 1) = "-" THEN SubSeq(t, 2, Len(t)) ELSE t)
ParseSigned(t) ==
    IF SubSeq(t, 1, 1) = "-" THEN 0 - ParseDec(SubSeq(t, 2, Len(t))) ELSE ParseDec(t)

\* the sum of the token at position `at` of the lines from..to
RECURSIVE SumOfTokens(_, _, _, _)
SumOfTokens(lines, at, from, to) ==
    IF from > to THEN 0
    ELSE ParseSigned(Tokens(lines[from])[at]) + SumOfTokens(lines, at, from + 1, to)

\* what a draw_dots(xs, ys) step appends: "q", one line per point, "Q"
DrawDotsEmits ==
    op.name = "draw_dots" =>
        LET xs    == op.arg[1]
            ys    == op.arg[2]
            n     == Min(Len(xs), Len(ys))
            lines == OutLines(Appended)
            x(k)  == IF k = 0 THEN 0 ELSE xs[k]
            y(k)  == IF k = 0 THEN 0 ELSE ys[k]
        IN  /\ Len(lines) = n + 2
            /\ lines[1] = "q" /\ lines[n + 2] = "Q"
            /\ Cardinality(Occurrences(Appended, "/M0 Do")) = n
            /\ \A k \in 1..n :
                  LET t == Tokens(lines[k + 1])
                  IN  /\ Len(t) = 9
                      /\ SubSeq(t, 1, 4) = <<"1", "0", "0", "1">>
                      /\ SubSeq(t, 7, 9) = <<"cm", "/M0", "Do">>
                      /\ IsSigned(t[5]) /\ IsSigned(t[6])
                      /\ ParseSigned(t[5]) = x(k) - x(k - 1)
                      /\ ParseSigned(t[6]) = y(k) - y(k - 1)
                      /\ SumOfTokens(lines, 5, 2, k + 1) = xs[k]
                      /\ SumOfTokens(lines, 6, 2, k + 1) = ys[k]

\* C19: draw_dots(xs, ys) emits exactly min(len xs, len ys) form
\* invocations; the translation before the k-th is (x_k - x_{k-1},
\* y_k - y_{k-1}), the point before the first being (0,0), so the
\* translations up to the k-th add up to (x_k, y_k).
DrawDotsRelativeTranslations == []DrawDotsEmits /\ [][AppendsOnly("draw_dots")]_vars

\* draw_dots with three x and two y: two invocations, the second moving back
DrawDotsWitness ==
    /\ op.name = "draw_dots"
    /\ op.arg = << <<4, -2, 6>>, <<-1, 0>> >>
    /\ EndsWith(page_buffer, "q\n1 0 0 1 4 -1 cm /M0 Do\n1 0 0 1 -6 1 cm /M0 Do\nQ\n")

\* the f64 a decimal token denotes, times Scale: [-]digits[.digits], at most
\* three digits after the point
IsDecimal(t) ==
    LET u == IF t # "" /\ SubSeq(t, 1, 1) = "-" THEN SubSeq(t, 2, Len(t)) ELSE t
        p == Split(u, ".")
    IN  /\ Len(p) \in {1, 2}
        /\ p[1] # "" /\ IsDigits(p[1])
        /\ Len(p) = 2 => (p[2] # "" /\ Len(p[2]) <= 3 /\ IsDigits(p[2])
                          /\ (ParseDec(p[2] \o Repeat("0", 3 - Len(p[2]))) * Scale) % 1000 = 0)
ParseScaled(t) ==
    LET neg == SubSeq(t, 1, 1) = "-"
        u   == IF neg THEN SubSeq(t, 2, Len(t)) ELSE t
        p   == Split(u, ".")
        th  == IF Len(p) = 2 THEN ParseDec(p[2] \o Repeat("0", 3 - Len(p[2]))) ELSE 0
        v   == ParseDec(p[1]) * Scale + (th * Scale) \div 1000
    IN  IF neg THEN 0 - v ELSE v

Horizontal(alignment) ==
    IF alignment \in {"TopLeft", "CenterLeft", "BottomLeft"} THEN "Left"
    ELSE IF alignment \in {"TopRight", "CenterRight", "BottomRight"} THEN "Right"
    ELSE "Center"
Vertical(alignment) ==
    IF alignment \in {"TopLeft", "TopRight", "TopCenter"} THEN "Top"
    ELSE IF alignment \in {"BottomLeft", "BottomRight", "BottomCenter"} THEN "Bottom"
    ELSE "Center"

\* px / Scale is x (Left), x - line_width (Right) or x - line_width / 2
\* (Center); line_width is given times Scale
PlacedX(px, h, x, line_width) ==
    CASE h = "Left"   -> px = Scale * x
      [] h = "Right"  -> px = Scale * x - line_width
      [] h = "Center" -> 2 * px = 2 * Scale * x - line_width
\* py / Scale is y - size * (l + 1) (Top), y + (n - l - 1) * 1.25 * size
\* (Bottom) or (y - size / 3) - (l - (n - 1) / 2) * 1.25 * size (Center);
\* both sides are multiplied by 24 * Scale
PlacedY(py, v, y, size, l, n) ==
    CASE v = "Top"    -> 24 * py = 24 * Scale * (y - size * (l + 1))
      [] v = "Bottom" -> 24 * py = 24 * Scale * y + 30 * Scale * (n - l - 1) * size
      [] v = "Center" -> 24 * py = (24 * Scale * y - 8 * Scale * size)
                                   - 15 * Scale * (2 * l - (n - 1)) * size

\* what a draw_text step that returns appends: "BT", the font line, one
\* line per line of the text, "ET"
DrawTextPlaces ==
    (op.name = "draw_text" /\ ~panicked) =>
        LET x         == op.arg[1][1]
            y         == op.arg[1][2]
            alignment == op.arg[2]
            text      == Split(op.arg[3], "\n")
            n         == Len(text)
            lines     == OutLines(Appended)
        IN  /\ Len(lines) = n + 3
            /\ lines[1] = "BT" /\ lines[n + 3] = "ET"
            /\ \A l \in 0..(n - 1) :
                  LET t == Tokens(lines[l + 3])
                  IN  /\ Len(t) = 9
                      /\ SubSeq(t, 1, 4) = <<"1", "0", "0", "1">>
                      /\ t[7] = "Tm" /\ t[9] = "Tj"
                      /\ IsDecimal(t[5]) /\ IsDecimal(t[6])
                      /\ PlacedX(ParseScaled(t[5]), Horizontal(alignment), x,
                                 WidthOf(fonts, current_font_index, font_size, text[l + 1]))
                      /\ PlacedY(ParseScaled(t[6]), Vertical(alignment), y, font_size, l, n)

IsOctalDigit(c) == \E d \in 0..7 : ToString(d) = c
\* s is one escape "\ooo" per character of line: a backslash and the three
\* octal digits of the character's code
RECURSIVE IsEscapeOf(_, _)
IsEscapeOf(s, line) ==
    IF line = "" THEN s = ""
    ELSE /\ Len(s) >= 4
         /\ SubSeq(s, 1, 1) = "\\"
         /\ \A k \in 2..4 : IsOctalDigit(SubSeq(s, k, k))
         /\ 64 * DigitOf(SubSeq(s, 2, 2)) + 8 * DigitOf(SubSeq(s, 3, 3)) + DigitOf(SubSeq(s, 4, 4))
                = CharCode(SubSeq(line, 1, 1))
         /\ IsEscapeOf(SubSeq(s, 5, Len(s)), SubSeq(line, 2, Len(line)))

\* C21: draw_text emits the font/size selection operator exactly once
\* before the first line, then for each line its own "1 0 0 1 x y Tm ("
\* positioning operator followed by one octal escape \ooo (a backslash and
\* three octal digits) per character of the line, then a show operator.
DrawTextEscapesThreeDigits ==
    (op.name = "draw_text" /\ ~panicked) =>
        LET text  == Split(op.arg[3], "\n")
            n     == Len(text)
            lines == OutLines(Appended)
        IN  /\ Len(lines) = n + 3
            /\ lines[2] = "/F" \o FmtInt(current_font_index) \o " " \o FmtInt(font_size) \o " Tf"
            /\ \A i \in 1..Len(lines) : EndsWith(lines[i], " Tf") => i = 2
            /\ \A l \in 0..(n - 1) :
                  LET t == Tokens(lines[l + 3])
                  IN  /\ Len(t) = 9
                      /\ SubSeq(t, 1, 4) = <<"1", "0", "0", "1">>
                      /\ t[7] = "Tm" /\ t[9] = "Tj"
                      /\ Len(t[8]) >= 2
                      /\ SubSeq(t[8], 1, 1) = "(" /\ EndsWith(t[8], ")")
                      /\ IsEscapeOf(SubSeq(t[8], 2, Len(t[8]) - 1), text[l + 1])

\* ================================================================ floating point
\* f32 and f64 values and their arithmetic, rounded to nearest (ties to
\* even) as the hardware does it.  Mantissas do not fit TLC's integers:
\* natural numbers are little-endian sequences of limbs below Limb, without
\* leading zero limbs (<<>> is 0).
Limb == 2^15
LimbBits == 15

RECURSIVE NatTrim(_)
NatTrim(a) ==
    IF a # <<>> /\ a[Len(a)] = 0 THEN NatTrim(SubSeq(a, 1, Len(a) - 1)) ELSE a
\* n < Limb^2
NatOf(n) == NatTrim(<<n % Limb, n \div Limb>>)
LimbAt(a, i) == IF i <= Len(a) THEN a[i] ELSE 0
\* the integer a is, when it is below Limb^2
IntOf(a) == LimbAt(a, 1) + Limb * LimbAt(a, 2)

RECURSIVE NatAddFrom(_, _, _, _)
NatAddFrom(a, b, i, carry) ==
    IF i > Len(a) /\ i > Len(b) THEN (IF carry = 0 THEN <<>> ELSE <<carry>>)
    ELSE LET s == LimbAt(a, i) + LimbAt(b, i) + carry
         IN  <<s % Limb>> \o NatAddFrom(a, b, i + 1, s \div Limb)
NatAdd(a, b) == NatAddFrom(a, b, 1, 0)

\* a - b, for a >= b
RECURSIVE NatSubFrom(_, _, _, _)
NatSubFrom(a, b, i, borrow) ==
    IF i > Len(a) THEN <<>>
    ELSE LET d == a[i] - LimbAt(b, i) - borrow
         IN  <<IF d < 0 THEN d + Limb ELSE d>>
             \o NatSubFrom(a, b, i + 1, IF d < 0 THEN 1 ELSE 0)
NatSub(a, b) == NatTrim(NatSubFrom(a, b, 1, 0))

\* -1, 0 or 1 as a is below, equal to or above b
RECURSIVE NatCmpFrom(_, _, _)
NatCmpFrom(a, b, i) ==
    IF i = 0 THEN 0
    ELSE IF a[i] < b[i] THEN -1
    ELSE IF a[i] > b[i] THEN 1
    ELSE NatCmpFrom(a, b, i - 1)
NatCmp(a, b) ==
    IF Len(a) < Len(b) THEN -1
    ELSE IF Len(a) > Len(b) THEN 1
    ELSE NatCmpFrom(a, b, Len(a))

\* a * c, for c <= Limb
RECURSIVE NatMulSmallFrom(_, _, _, _)
NatMulSmallFrom(a, c, i, carry) ==
    IF i > Len(a) THEN (IF carry = 0 THEN <<>> ELSE <<carry>>)
    ELSE LET p == a[i] * c + carry
         IN  <<p % Limb>> \o NatMulSmallFrom(a, c, i + 1, p \div Limb)
NatMulSmall(a, c) == NatTrim(NatMulSmallFrom(a, c, 1, 0))

\* a * Limb^k
NatShiftLimbs(a, k) == IF a = <<>> THEN <<>> ELSE [i \in 1..k |-> 0] \o a

RECURSIVE NatMulFrom(_, _, _)
NatMulFrom(a, b, j) ==
    IF j > Len(b) THEN <<>>
    ELSE NatAdd(NatShiftLimbs(NatMulSmall(a, b[j]), j - 1), NatMulFrom(a, b, j + 1))
NatMul(a, b) == NatMulFrom(a, b, 1)

\* the quotient (little-endian, untrimmed) and the remainder of limbs 1..i
\* of a by d, 0 < d <= Limb, rem carried in from the limbs above
RECURSIVE NatDivFrom(_, _, _, _)
NatDivFrom(a, d, i, rem) ==
    IF i = 0 THEN [q |-> <<>>, r |-> rem]
    ELSE LET cur  == rem * Limb + a[i]
             rest == NatDivFrom(a, d, i - 1, cur % d)
         IN  [q |-> Append(rest.q, cur \div d), r |-> rest.r]
NatDiv(a, d) == NatTrim(NatDivFrom(a, d, Len(a), 0).q)
NatMod(a, d) == NatDivFrom(a, d, Len(a), 0).r

\* a * 2^k and floor(a / 2^k)
NatShl(a, k) == NatShiftLimbs(NatMulSmall(a, 2^(k % LimbBits)), k \div LimbBits)
NatShr(a, k) ==
    IF k \div LimbBits >= Len(a) THEN <<>>
    ELSE NatDiv(SubSeq(a, (k \div LimbBits) + 1, Len(a)), 2^(k % LimbBits))
\* the number of bits of a
BitLen(a) ==
    IF a = <<>> THEN 0
    ELSE LimbBits * (Len(a) - 1)
         + (CHOOSE b \in 1..LimbBits : 2^(b - 1) <= a[Len(a)] /\ a[Len(a)] < 2^b)

\* A float is (-1)^neg * m * 2^e: m is <<>> (zero, e = 0) or has exactly
\* the p bits of the type.  Infinities, NaN and subnormal numbers are not
\* modelled: no modelled computation comes near them.
F32Bits == 24
F64Bits == 53
Float(neg, m, e) == [neg |-> neg, m |-> m, e |-> e]
FZero(neg) == Float(neg, <<>>, 0)
FIsZero(x) == x.m = <<>>

\* m * 2^e (m # 0, any number of bits) rounded to p bits, ties to even
FRound(p, neg, m, e) ==
    LET len == BitLen(m)
    IN  IF len <= p THEN Float(neg, NatShl(m, p - len), e - (p - len))
        ELSE LET k    == len - p
                 q    == NatShr(m, k)
                 r    == NatSub(m, NatShl(q, k))
                 half == NatCmp(r, NatShl(<<1>>, k - 1))
                 up   == half = 1 \/ (half = 0 /\ q[1] % 2 = 1)
                 q1   == IF up THEN NatAdd(q, <<1>>) ELSE q
             IN  IF BitLen(q1) > p THEN Float(neg, NatShr(q1, 1), e + k + 1)
                 ELSE Float(neg, q1, e + k)

FNeg(x) == Float(~x.neg, x.m, x.e)
FAbs(x) == Float(FALSE, x.m, x.e)

\* x * y
FMul(p, x, y) ==
    IF FIsZero(x) \/ FIsZero(y) THEN FZero(x.neg # y.neg)
    ELSE FRound(p, x.neg # y.neg, NatMul(x.m, y.m), x.e + y.e)

\* x + y
FAdd(p, x, y) ==
    IF FIsZero(x) /\ FIsZero(y) THEN FZero(x.neg /\ y.neg)
    ELSE IF FIsZero(x) THEN y
    ELSE IF FIsZero(y) THEN x
    ELSE LET e  == Min(x.e, y.e)
             mx == NatShl(x.m, x.e - e)
             my == NatShl(y.m, y.e - e)
             c  == NatCmp(mx, my)
         IN  IF x.neg = y.neg THEN FRound(p, x.neg, NatAdd(mx, my), e)
             ELSE IF c = 0 THEN FZero(FALSE)
             ELSE IF c = 1 THEN FRound(p, x.neg, NatSub(mx, my), e)
             ELSE FRound(p, y.neg, NatSub(my, mx), e)
FSub(p, x, y) == FAdd(p, x, FNeg(y))

\* -1, 0 or 1 as |x| is below, equal to or above |y| (both of one type)
FCmpAbs(x, y) ==
    IF FIsZero(x) THEN (IF FIsZero(y) THEN 0 ELSE -1)
    ELSE IF FIsZero(y) THEN 1
    ELSE IF x.e < y.e THEN -1
    ELSE IF x.e > y.e THEN 1
    ELSE NatCmp(x.m, y.m)
\* x < y
FLess(x, y) ==
    IF FIsZero(x) /\ FIsZero(y) THEN FALSE
    ELSE IF x.neg # y.neg THEN x.neg
    ELSE IF x.neg THEN FCmpAbs(x, y) = 1
    ELSE FCmpAbs(x, y) = -1
\* x == y
FEq(x, y) == (FIsZero(x) /\ FIsZero(y)) \/ x = y
\* f.max(g)
FMax(x, y) == IF FLess(x, y) THEN y ELSE x

\* the value n / (ds[1] * ... * ds[k]) rounded to the type, for 0 <= n < Limb^2
\* and divisors 0 < ds[i] <= Limb: what a literal, an integer conversion or a
\* division of two small integers gives.  The quotient is taken with
\* enough bits, and a remainder left over is kept as one more low bit.
RECURSIVE DivAll(_, _, _)
DivAll(a, ds, i) ==
    IF i > Len(ds) THEN [q |-> a, exact |-> TRUE]
    ELSE LET rest == DivAll(NatDiv(a, ds[i]), ds, i + 1)
         IN  [q |-> rest.q, exact |-> rest.exact /\ NatMod(a, ds[i]) = 0]
FromRatio(p, neg, n, ds) ==
    IF n = 0 THEN FZero(neg)
    ELSE LET s == p + 2 + LimbBits * Len(ds)
             d == DivAll(NatShl(NatOf(n), s), ds, 1)
         IN  IF d.exact THEN FRound(p, neg, d.q, 0 - s)
             ELSE FRound(p, neg, NatAdd(NatShl(d.q, 1), <<1>>), 0 - s - 1)
FromInt(p, i) == FromRatio(p, i < 0, Abs(i), <<>>)

\* ---------------------------------------------------------------- width_of in f64
\* fonts::glyph_width as the f64 the generated literal denotes ("0.67")
GlyphWidthF64(font, c) == FromRatio(F64Bits, FALSE, GlyphWidth(font, c), <<100>>)

\* .filter(|c| *c != '\n').map(|c| glyph_width(font, c)).sum::<f64>(): the
\* widths are added to 0.0 one after the other, every sum rounded
RECURSIVE SumF64(_, _, _, _)
SumF64(font, text, i, acc) ==
    IF i > Len(text) THEN acc
    ELSE IF SubSeq(text, i, i) = "\n" THEN SumF64(font, text, i + 1, acc)
    ELSE SumF64(font, text, i + 1,
                FAdd(F64Bits, acc, GlyphWidthF64(font, SubSeq(text, i, i))))

WidthOfF64SkipFirst(fnts, index, size, text) ==
    FMul(F64Bits, SumF64(fnts[index + 1], text, 2, FZero(FALSE)), FromInt(F64Bits, size))

\* width_of, the f64 it returns, for a current font index inside the font list
WidthOfF64(fnts, index, size, text) ==
    FMul(F64Bits, SumF64(fnts[index + 1], text, 1, FZero(FALSE)), FromInt(F64Bits, size))

\* width_of(text): indexes the font list with the current font index (a
\* panic when it is out of bounds) and returns the width; &self, nothing changes
WidthOfCall(text) ==
    /\ ~panicked
    /\ n_ops < MaxOps
    /\ n_ops' = n_ops + 1
    /\ appended_from' = Len(page_buffer)
    /\ IF current_font_index < Len(fonts)
       THEN /\ op' = [name |-> "width_of", arg |-> text,
                      ret |-> WidthOfF64(fonts, current_font_index, font_size, text)]
            /\ panicked' = FALSE
       ELSE /\ op' = [name |-> "width_of", arg |-> text]
            /\ panicked' = TRUE
    /\ UNCHANGED <<buffer, page_buffer, objects, width, height, fonts, font_size,
                   current_font_index, compression, startxref,
                   n_add_page, n_draw, n_write, stray, started, flushed, xref_at,
                   flush_log>>

\* A third specification: a font selection, then width_of of a short text.
MaxTextLen == 3
WidthAlphabet == {"A", "i", " "}
RECURSIVE StringsOfLen(_)
StringsOfLen(n) ==
    IF n = 0 THEN {""} ELSE {s \o c : s \in StringsOfLen(n - 1), c \in WidthAlphabet}
WidthTexts == UNION {StringsOfLen(n) : n \in 0..MaxTextLen} \cup {"A\ni", "\n"}

NextWidth ==
    \/ \E font \in FontNames, size \in DrawFontSizes : Short /\ SetFont(font, size)
    \/ \E text \in WidthTexts : Short /\ WidthOfCall(text)

SpecWidth == Init /\ [][NextWidth]_vars

\* ---------------------------------------------------------------- C22
\* the two parts of every way to cut text in two
Cuts(text) == {<<SubSeq(text, 1, k), SubSeq(text, k + 1, Len(text))>> : k \in 0..Len(text)}
\* the <<unit, n>> of which text is unit repeated n times
Repetitions(text) ==
    {<<SubSeq(text, 1, k), Len(text) \div k>> :
        k \in {j \in 1..Len(text) :
                 Len(text) % j = 0 /\ Repeat(SubSeq(text, 1, j), Len(text) \div j) = text}}
WidthNow(text) == WidthOfF64(fonts, current_font_index, font_size, text)
Returned == op.name = "width_of" /\ ~panicked

\* C22 as stated: the width of s1 followed by s2 is the f64 sum of the
\* width of s1 and the width of s2, and the width of a string repeated n
\* times is n times its width.
WidthAdditiveExactly ==
    Returned =>
        /\ \A cut \in Cuts(op.arg) :
              FEq(op.ret, FAdd(F64Bits, WidthNow(cut[1]), WidthNow(cut[2])))
        /\ \A r \in Repetitions(op.arg) :
              FEq(op.ret, FMul(F64Bits, FromInt(F64Bits, r[2]), WidthNow(r[1])))

\* |a - b| <= 1e-7 * (|a| + |b|)
WidthTolerance == FromRatio(F64Bits, FALSE, 1, <<1000, 1000, 10>>)
Close(a, b) ==
    ~FLess(FMul(F64Bits, WidthTolerance, FAdd(F64Bits, FAbs(a), FAbs(b))),
           FAbs(FSub(F64Bits, a, b)))

\* C22 (amended): the width of s1 followed by s2 and the sum of the two
\* widths agree up to the rounding of the f64 additions (relative
\* difference at most 1e-7), and so do the width of a string repeated n
\* times and n times its width; the width is the rounded value of the
\* per-character sum that the layout of draw_text works with.
WidthAdditiveWithinRounding ==
    Returned =>
        /\ \A cut \in Cuts(op.arg) :
              Close(op.ret, FAdd(F64Bits, WidthNow(cut[1]), WidthNow(cut[2])))
        /\ \A r \in Repetitions(op.arg) :
              Close(op.ret, FMul(F64Bits, FromInt(F64Bits, r[2]), WidthNow(r[1])))
        /\ Close(op.ret,
                 FromRatio(F64Bits, FALSE,
                           WidthOf(fonts, current_font_index, font_size, op.arg), <<Scale>>))

\* "AAA" in Helvetica at size 9: 18.090000000000003, while the widths of "A"
\* and "AA" add up to 18.09
WidthAdditiveWitness ==
    /\ Returned /\ op.arg = "AAA"
    /\ fonts[current_font_index + 1] = "Helvetica" /\ font_size = 9
    /\ ~FEq(op.ret, FAdd(F64Bits, WidthNow("A"), WidthNow("AA")))
    /\ Close(op.ret, FAdd(F64Bits, WidthNow("A"), WidthNow("AA")))

\* ================================================================ graphicsstate.rs
\* ---------------------------------------------------------------- Matrix
\* std::f32::consts::PI
F32Pi == Float(FALSE, NatOf(13176795), -22)
F32One == FromInt(F32Bits, 1)
F32Zero == FZero(FALSE)

\* the f32 next to x, one unit in the last place away from or towards zero
FAway(p, x) == FRound(p, x.neg, NatAdd(x.m, <<1>>), x.e)
FTowards(p, x) ==
    IF x.m = NatShl(<<1>>, p - 1)
    THEN Float(x.neg, NatSub(NatShl(<<1>>, p), <<1>>), x.e - 1)
    ELSE Float(x.neg, NatSub(x.m, <<1>>), x.e)

\* The angles rotate is called with: a quarter of PI (what rotate_deg(45.)
\* computes, 45 * PI / 180), 1, PI, 2 * PI, and their negatives.
QuarterPi == Float(FALSE, F32Pi.m, -24)
TwoPi == FMul(F32Bits, FromInt(F32Bits, 2), F32Pi)
PositiveAngles == {QuarterPi, F32One, F32Pi, TwoPi}
Angles == PositiveAngles \cup {FNeg(a) : a \in PositiveAngles}

\* f32::cos and f32::sin are library calls of unspecified precision: the
\* result is the f32 nearest to the cosine or sine of the f32 angle, or one
\* of its two neighbours.
CosNearest(a) ==
    CASE FAbs(a) = QuarterPi -> Float(FALSE, NatOf(11863283), -24)
      [] FAbs(a) = F32One    -> Float(FALSE, NatOf(9064768), -24)
      [] FAbs(a) = F32Pi     -> Float(TRUE, NatOf(8388608), -23)
      [] FAbs(a) = TwoPi     -> Float(FALSE, NatOf(8388608), -23)
SinNearest(a) ==
    LET s == CASE FAbs(a) = QuarterPi -> Float(FALSE, NatOf(11863283), -24)
               [] FAbs(a) = F32One    -> Float(FALSE, NatOf(14117540), -24)
               [] FAbs(a) = F32Pi     -> Float(TRUE, NatOf(12303662), -47)
               [] FAbs(a) = TwoPi     -> Float(FALSE, NatOf(12303662), -46)
    IN  IF a.neg THEN FNeg(s) ELSE s
Near(x) == {x, FAway(F32Bits, x), FTowards(F32Bits, x)}
Cos(a) == Near(CosNearest(a))
Sin(a) == Near(SinNearest(a))

\* struct Matrix { v: [f32; 6] }
Matrix(v) == [v |-> v]
\* Matrix::translate, Matrix::scale, Matrix::uniform_scale
MatrixTranslate(dx, dy) == Matrix(<<F32One, F32Zero, F32Zero, F32One, dx, dy>>)
MatrixScale(sx, sy) == Matrix(<<sx, F32Zero, F32Zero, sy, F32Zero, F32Zero>>)
MatrixUniformScale(s) == MatrixScale(s, s)
\* Matrix::rotate: the matrices it may return, a.cos() and a.sin() taken
\* once each
MatrixRotate(a) ==
    {Matrix(<<c, s, FNeg(s), c, F32Zero, F32Zero>>) : c \in Cos(a), s \in Sin(a)}

\* a * b + c * d and a * b + c * d + e, every operation rounded to f32
Dot2(a, b, c, d) == FAdd(F32Bits, FMul(F32Bits, a, b), FMul(F32Bits, c, d))
Dot2Plus(a, b, c, d, e) == FAdd(F32Bits, Dot2(a, b, c, d), e)

\* the second element takes b[1] where the code takes b[3] (0-based)
MatrixMulWrongElement(ma, mb) ==
    LET a == ma.v
        b == mb.v
    IN  Matrix(<<Dot2(a[1], b[1], a[2], b[2]),
                 Dot2(a[1], b[2], a[2], b[4]),
                 Dot2(a[3], b[1], a[4], b[3]),
                 Dot2(a[3], b[2], a[4], b[4]),
                 Dot2Plus(a[5], b[1], a[6], b[3], b[5]),
                 Dot2Plus(a[5], b[2], a[6], b[4], b[6])>>)

\* impl Mul for Matrix (the code's indices are 0-based)
MatrixMul(ma, mb) ==
    LET a == ma.v
        b == mb.v
    IN  Matrix(<<Dot2(a[1], b[1], a[2], b[3]),
                 Dot2(a[1], b[2], a[2], b[4]),
                 Dot2(a[3], b[1], a[4], b[3]),
                 Dot2(a[3], b[2], a[4], b[4]),
                 Dot2Plus(a[5], b[1], a[6], b[3], b[5]),
                 Dot2Plus(a[5], b[2], a[6], b[4], b[6])>>)

\* a.iter().fold(0f32, |x, &y| x.max(y))
RECURSIVE Largest(_, _)
Largest(a, i) == IF i = 0 THEN F32Zero ELSE FMax(Largest(a, i - 1), a[i])
\* diff: None when no element of a and b differs by more than
\* 1e-6 * the largest element of either
Epsilon(a, b) ==
    FMul(F32Bits, FromRatio(F32Bits, FALSE, 1, <<1000, 1000>>),
         FMax(Largest(a, 6), Largest(b, 6)))
Diff(a, b) ==
    IF \E i \in 1..6 : FLess(Epsilon(a, b), FAbs(FSub(F32Bits, a[i], b[i])))
    THEN Some(<<a, b>>)
    ELSE None
Unit == <<F32One, F32Zero, F32Zero, F32One, F32Zero, F32Zero>>
\* assert_unit does not panic
IsUnit(m) == Diff(Unit, m.v) = None

\* The scale factors uniform_scale is called with: small integers and
\* their reciprocals (1.0 / s in f32).
ScaleIntegers == {2, 3, -1, 5}
Reciprocal(k) == FromRatio(F32Bits, k < 0, 1, <<Abs(k)>>)
ScaleFactors == {FromInt(F32Bits, k) : k \in ScaleIntegers} \cup {Reciprocal(k) : k \in ScaleIntegers}

\* Calls of the Matrix functions: they touch no document.
Unchanged ==
    UNCHANGED <<buffer, page_buffer, objects, width, height, fonts, font_size,
                current_font_index, compression, startxref, panicked,
                n_add_page, n_draw, n_write, stray, started, flushed, xref_at,
                n_ops, flush_log, appended_from>>
\* An expression constructor * constructor is evaluated call by call: a
\* constructor first, then the product of its result with another
\* constructor's.
RotateCall(a) ==
    /\ op.name = "new"
    /\ \E m \in MatrixRotate(a) : op' = [name |-> "rotate", arg |-> a, ret |-> m]
    /\ Unchanged
UniformScaleCall(s) ==
    /\ op.name = "new"
    /\ op' = [name |-> "uniform_scale", arg |-> s, ret |-> MatrixUniformScale(s)]
    /\ Unchanged
MulCall(b) ==
    /\ op.name \in {"rotate", "uniform_scale"}
    /\ op' = [name |-> "mul", arg |-> <<op.ret, b>>, ret |-> MatrixMul(op.ret, b)]
    /\ Unchanged

\* the matrices the constructors return
RotationsOf == [a \in Angles |-> MatrixRotate(a)]
Matrices ==
    UNION {RotationsOf[a] : a \in Angles} \cup {MatrixUniformScale(s) : s \in ScaleFactors}

NextMatrix ==
    \/ \E a \in Angles : RotateCall(a)
    \/ \E s \in ScaleFactors : UniformScaleCall(s)
    \/ \E b \in Matrices : MulCall(b)

SpecMatrix == Init /\ [][NextMatrix]_vars

\* ---------------------------------------------------------------- C23
\* C23: under Matrix multiplication, rotate(a) * rotate(-a) is the
\* identity matrix, uniform_scale(s) * uniform_scale(1/s) is the identity,
\* rotate of a full turn is the identity, and rotate(half turn) *
\* uniform_scale(-1) is the identity, all within the 1e-6 relative
\* tolerance of the tests' diff.
MatrixInverseLaws ==
    /\ \A a \in Angles :
          (op.name = "mul" /\ op.arg[1] \in RotationsOf[a]
                           /\ op.arg[2] \in RotationsOf[FNeg(a)]) => IsUnit(op.ret)
    /\ \A k \in ScaleIntegers :
          (op.name = "mul" /\ op.arg[1] = MatrixUniformScale(FromInt(F32Bits, k))
                           /\ op.arg[2] = MatrixUniformScale(Reciprocal(k))) => IsUnit(op.ret)
    /\ (op.name = "rotate" /\ FAbs(op.arg) = TwoPi) => IsUnit(op.ret)
    /\ (op.name = "mul" /\ op.arg[1] \in RotationsOf[F32Pi]
                        /\ op.arg[2] = MatrixUniformScale(FromInt(F32Bits, -1))) => IsUnit(op.ret)

\* rotate_deg(45.) * rotate_deg(-45.) with the nearest cosine and sine:
\* the product is the identity within the tolerance and not exactly
MatrixInverseWitness ==
    /\ op.name = "mul"
    /\ op.arg[1] = Matrix(<<CosNearest(QuarterPi), SinNearest(QuarterPi),
                            FNeg(SinNearest(QuarterPi)), CosNearest(QuarterPi), F32Zero, F32Zero>>)
    /\ op.arg[2] \in RotationsOf[FNeg(QuarterPi)]
    /\ op.ret.v # Unit
    /\ IsUnit(op.ret)

\* ---------------------------------------------------------------- transform
\* format!("{}", x) of an f32: the shortest decimal that reads back as x.
\* Modelled for the values that are a whole number of eighths below 1024:
\* the spacing of the f32 there is under 0.001, so that decimal is the
\* value written out exactly, with up to three digits after the point.
Eighths(x) == IF x.e + 3 >= 0 THEN NatShl(x.m, x.e + 3) ELSE NatShr(x.m, 0 - (x.e + 3))
IsEighths(x) ==
    /\ x.e + 3 < 0 => NatShl(NatShr(x.m, 0 - (x.e + 3)), 0 - (x.e + 3)) = x.m
    /\ Len(Eighths(x)) <= 1 /\ IntOf(Eighths(x)) < 8 * 1024
DisplayF32(x) ==
    CASE FIsZero(x) -> (IF x.neg THEN "-0" ELSE "0")
      [] ~FIsZero(x) /\ IsEighths(x) ->
            DisplayScaled((IF x.neg THEN -1 ELSE 1) * IntOf(Eighths(x)) * (Scale \div 8))

\* impl Display for Matrix
MatrixDisplay(m) ==
    DisplayF32(m.v[1]) \o " " \o DisplayF32(m.v[2]) \o " " \o DisplayF32(m.v[3]) \o " "
    \o DisplayF32(m.v[4]) \o " " \o DisplayF32(m.v[5]) \o " " \o DisplayF32(m.v[6])

\* what transform(m) appends
TransformBytes(m) == MatrixDisplay(m) \o " cm\n"

\* transform
Transform(m) ==
    /\ ~panicked
    /\ n_ops < MaxOps
    /\ n_ops' = n_ops + 1
    /\ appended_from' = Len(page_buffer)
    /\ n_draw < MaxDraw
    /\ page_buffer' = page_buffer \o TransformBytes(m)
    /\ n_draw' = n_draw + 1
    /\ stray' = (stray \/ n_add_page = 0)
    /\ op' = [name |-> "transform", arg |-> m]
    /\ UNCHANGED <<buffer, objects, width, height, fonts, font_size,
                   current_font_index, compression, startxref, panicked,
                   n_add_page, n_write, started, flushed, xref_at, flush_log>>

\* A fifth specification: pages and transforms.  The matrices are
\* translations and scalings by halves and whole numbers, and the products
\* of two of them.
HalfF32 == FromRatio(F32Bits, FALSE, 1, <<2>>)
BaseMatrices ==
    {MatrixTranslate(FromInt(F32Bits, 7), F32Zero),
     MatrixTranslate(F32Zero, FromInt(F32Bits, -3)),
     MatrixScale(FromInt(F32Bits, 2), FromInt(F32Bits, 3)),
     MatrixUniformScale(HalfF32)}
TransformInputs == BaseMatrices \cup {MatrixMul(a, b) : a, b \in BaseMatrices}

NextTransform ==
    \/ \E d \in DrawPageDims : Short /\ AddPage(d)
    \/ \E m \in TransformInputs : Short /\ Transform(m)

SpecTransform == Init /\ [][NextTransform]_vars

\* ---------------------------------------------------------------- C24
\* How a reader of the content stream keeps the current transformation
\* matrix: "a b c d e f cm" replaces it by the operand matrix times the
\* current matrix.  A matrix is six numerators n over one denominator d.
CmProduct(m, c) ==
    [n |-> <<m.n[1] * c.n[1] + m.n[2] * c.n[3],
             m.n[1] * c.n[2] + m.n[2] * c.n[4],
             m.n[3] * c.n[1] + m.n[4] * c.n[3],
             m.n[3] * c.n[2] + m.n[4] * c.n[4],
             m.n[5] * c.n[1] + m.n[6] * c.n[3] + c.n[5] * m.d,
             m.n[5] * c.n[2] + m.n[6] * c.n[4] + c.n[6] * m.d>>,
     d |-> m.d * c.d]
CmOperand(t) == [n |-> [i \in 1..6 |-> ParseScaled(t[i])], d |-> Scale]
RECURSIVE CtmFrom(_, _, _)
CtmFrom(lines, i, ctm) ==
    IF i > Len(lines) THEN ctm
    ELSE LET t == Tokens(lines[i])
         IN  IF Len(t) = 7 /\ t[7] = "cm"
             THEN CtmFrom(lines, i + 1, CmProduct(CmOperand(t), ctm))
             ELSE CtmFrom(lines, i + 1, ctm)
\* the current transformation matrix after the operators of bytes, from
\* the identity
CtmOf(bytes) == CtmFrom(OutLines(bytes), 1, [n |-> <<1, 0, 0, 1, 0, 0>>, d |-> 1])
SameCtm(c1, c2) == \A i \in 1..6 : c1.n[i] * c2.d = c2.n[i] * c1.d

\* C24: transform(A * B) once leaves the same current transformation
\* matrix as transform(A) followed by transform(B), each cm operator
\* concatenated onto the current matrix as the format prescribes, for
\* every pair of matrices A and B.
TransformOfProductIsSequence ==
    \A a, b \in BaseMatrices :
        (op.name = "transform" /\ op.arg = b
         /\ EndsWith(page_buffer, TransformBytes(a) \o TransformBytes(b))) =>
            SameCtm(CtmOf(TransformBytes(a) \o TransformBytes(b)),
                    CtmOf(TransformBytes(MatrixMul(a, b))))

\* ---------------------------------------------------------------- set_line_width
\* set_line_width: ryu!(self.page_buffer, width.into(), "w")
SetLineWidth(w) ==
    /\ ~panicked
    /\ n_ops < MaxOps
    /\ n_ops' = n_ops + 1
    /\ appended_from' = Len(page_buffer)
    /\ n_draw < MaxDraw
    /\ page_buffer' = page_buffer \o Ryu(<<w, Str("w")>>)
    /\ n_draw' = n_draw + 1
    /\ stray' = (stray \/ n_add_page = 0)
    /\ op' = [name |-> "set_line_width", arg |-> w]
    /\ UNCHANGED <<buffer, objects, width, height, fonts, font_size,
                   current_font_index, compression, startxref, panicked,
                   n_add_page, n_write, started, flushed, xref_at, flush_log>>

\* A sixth specification: line widths of every shape the formatter tells
\* apart.  Zero and one; values with short and with long fractions (an f64
\* has up to 17 significant digits); values at and below 0.00001, where the
\* formatter leaves the digits to format!; each also negated.
Magnitudes ==
    {F64(FALSE, 0, ""), F64(FALSE, 1, ""), F64(FALSE, 2, "5"), F64(FALSE, 0, "5"),
     F64(FALSE, 100, ""), F64(FALSE, 100, "5"), F64(FALSE, 2000000000, ""),
     F64(FALSE, 1, "0000000000000002"), F64(FALSE, 100, "00000000000001"),
     F64(FALSE, 7, "00000000000005"), F64(FALSE, 0, "999999999999999"),
     F64(FALSE, 0, "1234567890123456"), F64(FALSE, 1234567, "0000001"),
     F64(FALSE, 0, "000012345678901234"), F64(FALSE, 0, "000011"),
     F64(FALSE, 0, "00001"), F64(FALSE, 0, "0000099"), F64(FALSE, 0, "0000000000001"),
     F64(FALSE, 0, "010000000000000002")}
LineWidths == Magnitudes \cup {F64(TRUE, v.ip, v.fd) : v \in Magnitudes}

NextFormat ==
    \/ \E d \in DrawPageDims : Short /\ AddPage(d)
    \/ \E w \in LineWidths : Short /\ SetLineWidth(w)

SpecFormat == Init /\ [][NextFormat]_vars

\* ---------------------------------------------------------------- C25
\* the token a set_line_width step wrote before " w\n"
WidthToken == SubSeq(Appended, 1, Len(Appended) - Len(" w\n"))
Formatted == op.name = "set_line_width" /\ EndsWith(Appended, " w\n")
Magnitude(v) == F64(FALSE, v.ip, v.fd)

\* C25: the formatter prints the exact value 0 as "0" and the exact value
\* 1 as "1", and for every negative input emits "-" followed by the
\* formatting of the magnitude.
FormatsZeroOneAndSign ==
    /\ op.name = "set_line_width" => Formatted
    /\ Formatted =>
          LET v == op.arg
          IN  /\ IsZero(v) => WidthToken = "0"
              /\ (IsOne(v) /\ ~v.neg) => WidthToken = "1"
              /\ (v.neg /\ ~IsZero(v)) =>
                    /\ SubSeq(WidthToken, 1, 1) = "-"
                    /\ SubSeq(WidthToken, 2, Len(WidthToken))
                           = RyuFormat(Magnitude(v), Precision)
                    /\ SubSeq(RyuFormat(Magnitude(v), Precision), 1, 1) # "-"

\* -2.5 is written "-2.5"
FormatsSignWitness ==
    /\ Formatted /\ op.arg = F64(TRUE, 2, "5")
    /\ Appended = "-2.5 w\n"

\* ---------------------------------------------------------------- C26
\* 1e-5 < |v| < 1e16, for the modelled values (all below 1e16)
InClaimRange(v) == InRyuRange(Magnitude(v))
\* s extended with zeros to n characters
PadRight(s, n) == s \o Repeat("0", n - Len(s))

\* C26: for 1e-5 < |x| < 1e16 the token has at most `precision` digits
\* after the decimal point, no trailing zero after the point and no
\* trailing point, keeps every integer-part digit, and reads back as a
\* value less than 10^-precision away from x (towards zero): its digits
\* are the integer part and the first `precision` fraction digits of x.
FormatKeepsPrecisionDigits ==
    (Formatted /\ InClaimRange(op.arg)) =>
        LET v     == op.arg
            t     == IF v.neg THEN SubSeq(WidthToken, 2, Len(WidthToken)) ELSE WidthToken
            parts == Split(t, ".")
            frac  == IF Len(parts) = 2 THEN parts[2] ELSE ""
        IN  /\ Len(parts) \in {1, 2}
            /\ parts[1] = FmtInt(v.ip)
            /\ IsDigits(parts[1])
            /\ Len(parts) = 2 =>
                  /\ frac # "" /\ IsDigits(frac)
                  /\ SubSeq(frac, Len(frac), Len(frac)) # "0"
            /\ Len(frac) <= Precision
            /\ PadRight(frac, Precision)
                   = PadRight(SubSeq(v.fd, 1, Min(Len(v.fd), Precision)), Precision)

\* 0.999999999999999 is cut to the precision, 100.00000000000001 is
\* written "100"
FormatPrecisionWitness ==
    /\ Formatted
    /\ \/ /\ op.arg = F64(FALSE, 0, "999999999999999")
          /\ WidthToken = "0." \o Repeat("9", Precision)
       \/ /\ op.arg = F64(TRUE, 100, "00000000000001") /\ Precision < 14
          /\ WidthToken = "-100"

\* ---------------------------------------------------------------- color, clipping, image
\* an operation that writes bytes to the page: self.page_buffer.extend(bytes)
PageOperator(name, arg, bytes) ==
    /\ ~panicked
    /\ n_ops < MaxOps
    /\ n_ops' = n_ops + 1
    /\ appended_from' = Len(page_buffer)
    /\ n_draw < MaxDraw
    /\ page_buffer' = page_buffer \o bytes
    /\ n_draw' = n_draw + 1
    /\ stray' = (stray \/ n_add_page = 0)
    /\ op' = [name |-> name, arg |-> arg]
    /\ UNCHANGED <<buffer, objects, width, height, fonts, font_size,
                   current_font_index, compression, startxref, panicked,
                   n_add_page, n_write, started, flushed, xref_at, flush_log>>

\* f64::from(color) / 255.0, for the components modelled
Norm(c) ==
    CASE c = 0   -> OfInt(0)
      [] c = 51  -> F64(FALSE, 0, "2")
      [] c = 128 -> F64(FALSE, 0, "5019607843137255")
      [] c = 255 -> OfInt(1)
Color(red, green, blue) == [red |-> red, green |-> green, blue |-> blue]
SetColorBytes(color) ==
    Ryu(<<Norm(color.red), Norm(color.green), Norm(color.blue), Str("SC")>>)
    \o Ryu(<<Norm(color.red), Norm(color.green), Norm(color.blue), Str("rg")>>)

\* set_color that starts the page buffer over
SetColorClearsPage(color) ==
    /\ ~panicked
    /\ n_ops < MaxOps
    /\ n_ops' = n_ops + 1
    /\ appended_from' = Len(page_buffer)
    /\ n_draw < MaxDraw
    /\ page_buffer' = SetColorBytes(color)
    /\ n_draw' = n_draw + 1
    /\ stray' = (stray \/ n_add_page = 0)
    /\ op' = [name |-> "set_color", arg |-> color]
    /\ UNCHANGED <<buffer, objects, width, height, fonts, font_size,
                   current_font_index, compression, startxref, panicked,
                   n_add_page, n_write, started, flushed, xref_at, flush_log>>

\* set_color
SetColor(color) == PageOperator("set_color", color, SetColorBytes(color))

\* set_clipping_box: location <<x, y>>, size <<width, height>>
SetClippingBox(location, size) ==
    PageOperator("set_clipping_box", <<location, size>>,
                 Ryu(<<location[1], location[2], size[1], size[2], Str("re W n")>>))

\* format!("{}", v) of an f64
DisplaySigned(v) == (IF v.neg THEN "-" ELSE "") \o Display(v)
\* add_image_at: the image is [buf, width, height]; the deflated pixels are
\* opaque bytes of one of the lengths of a zlib stream
AddImageAt(image, location) ==
    \E clen \in DeflateLens(Len(image.buf)) :
        PageOperator("add_image_at", <<image, location>>,
                     "q " \o FmtInt(image.width) \o " 0 0 " \o FmtInt(image.height) \o " "
                     \o DisplaySigned(location[1]) \o " " \o DisplaySigned(location[2])
                     \o " cm\nBI\n/W " \o FmtInt(image.width) \o "\n/H " \o FmtInt(image.height)
                     \o "\n/CS /RGB\n/BPC 8\n/F [/Fl]\nID\n"
                     \o Deflated(clen) \o "\nEI Q\n")

\* A seventh specification: pages, fonts and one or two of the operations
\* that write to the page, of every kind.
Colors == {Color(0, 0, 0), Color(255, 128, 51)}
Boxes == {<< <<OfInt(0), OfInt(0)>>, <<OfInt(180), F64(FALSE, 99, "5")>> >>}
Images == {[buf |-> "rgb", width |-> 1, height |-> 1], [buf |-> "rgbrgb", width |-> 2, height |-> 1]}
ImageLocations == {<<OfInt(10), F64(TRUE, 2, "5")>>}
PageTexts == {"Ai", "A\ni i"}
PageMatrices == {MatrixTranslate(FromInt(F32Bits, 7), F32Zero), MatrixUniformScale(HalfF32)}
PageLineWidths == {OfInt(1), F64(FALSE, 0, "5")}

NextPage ==
    \/ \E d \in DrawPageDims : Short /\ AddPage(d)
    \/ \E font \in FontNames, size \in FontSizes : Short /\ SetFont(font, size)
    \/ Short /\ EndLine
    \/ \E in \in LineInputs : Short /\ DrawLine(in[1], in[2])
    \/ \E in \in DotsInputs : Short /\ DrawDots(in[1], in[2])
    \/ \E text \in PageTexts : Short /\ DrawText(<<10, 20>>, "TopLeft", text)
    \/ \E m \in PageMatrices : Short /\ Transform(m)
    \/ \E w \in PageLineWidths : Short /\ SetLineWidth(w)
    \/ \E color \in Colors : Short /\ SetColor(color)
    \/ \E box \in Boxes : Short /\ SetClippingBox(box[1], box[2])
    \/ \E image \in Images, location \in ImageLocations : Short /\ AddImageAt(image, location)

SpecPage == Init /\ [][NextPage]_vars

\* ---------------------------------------------------------------- C27
PageOperations ==
    {"end_line", "draw_line", "draw_dots", "draw_text", "transform", "set_line_width",
     "set_color", "set_clipping_box", "add_image_at"}
\* a call of one of the operations that write to the page
PageOperationStep == n_ops' = n_ops + 1 /\ op'.name \in PageOperations
AppendsAndKeepsFrame ==
    PageOperationStep =>
        /\ Len(page_buffer') >= Len(page_buffer)
        /\ SubSeq(page_buffer', 1, Len(page_buffer)) = page_buffer
        /\ appended_from' = Len(page_buffer)
        /\ buffer' = buffer
        /\ width' = width /\ height' = height
        /\ fonts' = fonts

\* C27: between page flushes every drawing, color, transform, clipping,
\* image and text operation only appends bytes to the page buffer: the
\* bytes already there stay an unchanged prefix, and the output buffer, the
\* page dimensions and the font list are left unchanged.
PageOperationsOnlyAppend == [][AppendsAndKeepsFrame]_vars

\* a color set on a page that add_page began: the preamble is still there
PageOperationsWitness ==
    /\ op.name = "set_color" /\ op.arg = Color(255, 128, 51)
    /\ n_add_page = 1
    /\ appended_from = Len(Preamble)
    /\ page_buffer = Preamble \o "1 0.501960784313 0.2 SC\n1 0.501960784313 0.2 rg\n"

\* ---------------------------------------------------------------- C28
\* C28: in every reachable state the current font index is a position of
\* the font list (current_font_index < fonts.len()), also right after a
\* page flush has truncated the font list to the default font, so that
\* width_of and draw_text never index out of bounds.
CurrentFontIndexValid ==
    /\ current_font_index < Len(fonts)
    /\ op.name \in {"width_of", "draw_text"} => ~panicked

\* ---------------------------------------------------------------- C29
\* C29: for any number of pages, zero included, the page-tree body
\* written by write_to holds a bracket-balanced /Kids array: the opening
\* "[" is there, the page references are separated by single spaces, and
\* the array is closed by "]".
KidsArrayBalanced ==
    Written =>
        \A body \in {PageTreeBody} :
            /\ Cardinality(Occurrences(body, "/Kids [")) = 1
            /\ Cardinality(Occurrences(body, "[")) = 1
            /\ Cardinality(Occurrences(body, "]")) = 1
            /\ \A open \in Occurrences(body, "["), close \in Occurrences(body, "]") :
                  /\ open < close
                  /\ \A kids \in {Slice(body, open + 1, close - open - 1)} :
                        /\ Occurrences(kids, "  ") = {}
                        /\ kids # "" => /\ SubSeq(kids, 1, 1) # " "
                                        /\ SubSeq(kids, Len(kids), Len(kids)) # " "
                        /\ Len(Tokens(kids)) = IF kids = "" THEN 1 ELSE 3 * PageCount(objects)

\* ---------------------------------------------------------------- C30
\* a page that a write_to flushed is not flushed again by a write_to that
\* follows it directly: the last two flushes are not those of two
\* consecutive write_to calls
SecondWriteAllocatesNothing ==
    ~ /\ Len(flush_log) >= 2
      /\ flush_log[Len(flush_log)].by = "write_to"
      /\ flush_log[Len(flush_log)].at = n_ops
      /\ flush_log[Len(flush_log) - 1].by = "write_to"
      /\ flush_log[Len(flush_log) - 1].at = n_ops - 1
\* the output holds one copy of every object, one xref section and one trailer
OneCopyOfEverything ==
    Written =>
        /\ \A i \in 1..Len(objects) :
              Cardinality(Occurrences(buffer, "\n" \o ObjToken(objects[i].id))) = 1
        /\ Cardinality(Occurrences(buffer, "\nxref\n")) = 1
        /\ Cardinality(Occurrences(buffer, "\ntrailer\n")) = 1

\* C30: a page's pending content is flushed into objects at most once:
\* after write_to has flushed the pending page, a second write_to on the
\* same document allocates no further content-stream or page object, and
\* the output buffer holds exactly one copy of each object, one xref
\* section and one trailer.
PageFlushedAtMostOnce == SecondWriteAllocatesNothing /\ OneCopyOfEverything

====
